---------------------------- MODULE Spec2Model ----------------------------
(***************************************************************************)
(* Model of the sysdesign-wiki repository: the legacy in-code record       *)
(* rosters and their aggregation indexes (src/data/index.ts,               *)
(* src/data/guides/index.ts), the category configuration, the content      *)
(* schema (src/content.config.ts) and the OG-image GET handlers            *)
(* (src/pages/og/*.png.ts).                                                *)
(***************************************************************************)
EXTENDS Integers, Sequences, FiniteSets, TLC

(***************************************************************************)
(* Bounds of the model.                                                    *)
(***************************************************************************)
\* longest roster drawn for the index functions in SpecIndex
MaxRoster == 2
\* longest tags list of a drawn record / document
MaxTags == 2

(***************************************************************************)
(* JavaScript values.                                                      *)
(***************************************************************************)
\* the absent value: what Array.prototype.find returns when nothing matches
\* and what a property read of a missing key yields
Undefined == [undefined |-> TRUE]

(***************************************************************************)
(* The system records, one module each (src/data/<name>.ts).  The          *)
(* identity and classification fields, the tagline and the scale map are   *)
(* carried.  The modules twitter, slack, google-meet, zoom, chatgpt,       *)
(* google-photos and gmail are not available: their records take the       *)
(* module name as slug, the category the specification and the roster      *)
(* grouping give them, no tags, an empty tagline and an empty scale map.   *)
(***************************************************************************)
whatsapp ==
    [slug |-> "whatsapp", name |-> "WhatsApp", category |-> "messaging",
     tags |-> <<"messaging", "real-time", "encryption", "erlang", "XMPP">>,
     tagline |-> "End-to-end encrypted messaging at planetary scale",
     scale |-> << [key |-> "Monthly active users", value |-> "2B+"],
                [key |-> "Messages per day", value |-> "100B+"],
                [key |-> "Peak throughput", value |-> "~1.15M messages/second"],
                [key |-> "Media storage", value |-> "Petabytes"] >>]

instagram ==
    [slug |-> "instagram", name |-> "Instagram", category |-> "social",
     tags |-> <<"social", "feeds", "media", "python", "django", "cassandra">>,
     tagline |-> "Photo and video sharing at massive scale with real-time feeds",
     scale |-> << [key |-> "Monthly active users", value |-> "2B+"],
                [key |-> "Photos uploaded daily", value |-> "~100M"],
                [key |-> "Likes per second", value |-> "~1M"],
                [key |-> "Media storage", value |-> "Exabytes"] >>]

telegram ==
    [slug |-> "telegram", name |-> "Telegram", category |-> "messaging",
     tags |-> <<"messaging", "cloud", "channels", "MTProto", "distributed">>,
     tagline |-> "Cloud-native messaging with unlimited storage and channels",
     scale |-> << [key |-> "Monthly active users", value |-> "800M+"],
                [key |-> "Messages per day", value |-> "~15B"],
                [key |-> "Concurrent connections", value |-> "Millions"],
                [key |-> "Storage model", value |-> "Full cloud history"] >>]

netflix ==
    [slug |-> "netflix", name |-> "Netflix", category |-> "streaming",
     tags |-> <<"streaming", "video", "CDN", "microservices", "recommendation">>,
     tagline |-> "Global video streaming with personalized content delivery",
     scale |-> << [key |-> "Paid subscribers", value |-> "260M+"],
                [key |-> "Video streamed weekly", value |-> "1B+ hours"],
                [key |-> "API requests/second", value |-> "~500K"],
                [key |-> "Content encodings", value |-> "Petabytes"] >>]

uber ==
    [slug |-> "uber", name |-> "Uber", category |-> "transport",
     tags |-> <<"transport", "geospatial", "real-time", "matching", "maps">>,
     tagline |-> "Real-time ride matching with geospatial intelligence",
     scale |-> << [key |-> "Monthly active riders", value |-> "130M+"],
                [key |-> "Trips per day", value |-> "~28M"],
                [key |-> "GPS updates/second", value |-> "Millions"],
                [key |-> "Trip & location data", value |-> "Petabytes"] >>]

twitter ==
    [slug |-> "twitter", name |-> "Twitter", category |-> "social", tags |-> <<>>, tagline |-> "", scale |-> <<>>]

slack ==
    [slug |-> "slack", name |-> "Slack", category |-> "messaging", tags |-> <<>>, tagline |-> "", scale |-> <<>>]

\* variant: Discord filed under another category
discordAsSocial ==
    [slug |-> "discord", name |-> "Discord", category |-> "social",
     tags |-> <<"messaging", "real-time", "voice", "gaming", "communities", "websocket", "elixir">>,
     tagline |-> "Real-time voice, video, and text for communities at massive scale",
     scale |-> << [key |-> "Monthly active users", value |-> "200M+"],
                [key |-> "Concurrent voice connections", value |-> "10M+"],
                [key |-> "Messages per day", value |-> "4B+"],
                [key |-> "Servers (guilds)", value |-> "19M+ active"] >>]

discord ==
    [slug |-> "discord", name |-> "Discord", category |-> "messaging",
     tags |-> <<"messaging", "real-time", "voice", "gaming", "communities", "websocket", "elixir">>,
     tagline |-> "Real-time voice, video, and text for communities at massive scale",
     scale |-> << [key |-> "Monthly active users", value |-> "200M+"],
                [key |-> "Concurrent voice connections", value |-> "10M+"],
                [key |-> "Messages per day", value |-> "4B+"],
                [key |-> "Servers (guilds)", value |-> "19M+ active"] >>]

googleMeet ==
    [slug |-> "google-meet", name |-> "Google Meet", category |-> "video", tags |-> <<>>, tagline |-> "", scale |-> <<>>]

zoom ==
    [slug |-> "zoom", name |-> "Zoom", category |-> "video", tags |-> <<>>, tagline |-> "", scale |-> <<>>]

github ==
    [slug |-> "github", name |-> "GitHub", category |-> "devtools",
     tags |-> <<"git", "code-hosting", "CI/CD", "developer-tools", "collaboration", "open-source">>,
     tagline |-> "The world's largest code hosting platform powered by Git at scale",
     scale |-> << [key |-> "Developers", value |-> "100M+"],
                [key |-> "Repositories", value |-> "400M+"],
                [key |-> "Daily Git operations", value |-> "Billions"],
                [key |-> "Actions workflow runs/day", value |-> "30M+"] >>]

chatgpt ==
    [slug |-> "chatgpt", name |-> "ChatGPT", category |-> "ai", tags |-> <<>>, tagline |-> "", scale |-> <<>>]

googleMaps ==
    [slug |-> "google-maps", name |-> "Google Maps", category |-> "search",
     tags |-> <<"maps", "geospatial", "navigation", "real-time", "routing", "search">>,
     tagline |-> "Real-time navigation and geospatial search for billions of users",
     scale |-> << [key |-> "Monthly active users", value |-> "1B+"],
                [key |-> "Countries covered", value |-> "220+"],
                [key |-> "Road data", value |-> "1B+ km of roads"],
                [key |-> "Places in database", value |-> "250M+"] >>]

googleDrive ==
    [slug |-> "google-drive", name |-> "Google Drive", category |-> "productivity",
     tags |-> <<"storage", "collaboration", "sync", "sharing", "cloud", "google">>,
     tagline |-> "Cloud file storage and real-time collaboration at planetary scale",
     scale |-> << [key |-> "Users", value |-> "1B+"],
                [key |-> "Files stored", value |-> "Trillions"],
                [key |-> "Storage capacity", value |-> "Exabytes"],
                [key |-> "Daily active collaborators", value |-> "100M+"] >>]

googlePhotos ==
    [slug |-> "google-photos", name |-> "Google Photos", category |-> "productivity", tags |-> <<>>, tagline |-> "", scale |-> <<>>]

youtube ==
    [slug |-> "youtube", name |-> "YouTube", category |-> "streaming",
     tags |-> <<"streaming", "video", "CDN", "recommendation", "transcoding", "ads">>,
     tagline |-> "The world's largest video platform serving billions of hours daily",
     scale |-> << [key |-> "Monthly active users", value |-> "2.7B+"],
                [key |-> "Hours of video watched/day", value |-> "1B+"],
                [key |-> "Video uploads per minute", value |-> "500+ hours"],
                [key |-> "Content library", value |-> "800M+ videos"] >>]

gmail ==
    [slug |-> "gmail", name |-> "Gmail", category |-> "productivity", tags |-> <<>>, tagline |-> "", scale |-> <<>>]

(***************************************************************************)
(* The guide records (src/data/guides/<name>.ts).  The modules             *)
(* multi-tenant, feature-flags, recommendation-engine, rate-limiting,      *)
(* e2e-encryption, payment-processing, audit-logging and video-transcoding *)
(* are not available and are treated like the missing system modules.      *)
(***************************************************************************)
sse ==
    [slug |-> "server-sent-events", title |-> "Server-Sent Events", category |-> "real-time",
     tags |-> <<"real-time", "streaming", "HTTP", "EventSource", "push">>,
     tagline |-> "One-way real-time streaming from server to client over HTTP"]

websocketInfra ==
    [slug |-> "websocket-infrastructure", title |-> "WebSocket Infrastructure", category |-> "real-time",
     tags |-> <<"WebSocket", "real-time", "bidirectional", "scaling", "pub/sub">>,
     tagline |-> "Persistent bidirectional connections at scale for real-time applications"]

presenceOnlineStatus ==
    [slug |-> "presence-online-status", title |-> "Presence & Online Status", category |-> "real-time",
     tags |-> <<"presence", "real-time", "heartbeat", "distributed", "status">>,
     tagline |-> "Distributed heartbeat tracking to show who is online in real time"]

pushNotifications ==
    [slug |-> "push-notifications", title |-> "Push Notifications", category |-> "real-time",
     tags |-> <<"push", "notifications", "APNs", "FCM", "fan-out", "mobile">>,
     tagline |-> "Fan-out delivery to APNs and FCM with guarantees, batching, and user preferences"]

customDomains ==
    [slug |-> "custom-domains", title |-> "Custom Domains", category |-> "platform",
     tags |-> <<"custom-domains", "DNS", "TLS", "SaaS", "multi-tenant", "CNAME">>,
     tagline |-> "Let users map their own domains to your SaaS with DNS verification and automatic TLS"]

multiTenant ==
    [slug |-> "multi-tenant", title |-> "multi-tenant", category |-> "platform", tags |-> <<>>, tagline |-> ""]

featureFlags ==
    [slug |-> "feature-flags", title |-> "feature-flags", category |-> "platform", tags |-> <<>>, tagline |-> ""]

rbac ==
    [slug |-> "rbac", title |-> "Role-Based Access Control", category |-> "platform",
     tags |-> <<"RBAC", "permissions", "authorization", "security", "policy">>,
     tagline |-> "Permission models, policy engines, and row-level security for multi-user applications"]

fullTextSearch ==
    [slug |-> "full-text-search", title |-> "Full-Text Search", category |-> "data",
     tags |-> <<"search", "Elasticsearch", "inverted-index", "relevance", "Typesense">>,
     tagline |-> "Inverted indexes, relevance tuning, and search-as-you-type for any content type"]

feedTimeline ==
    [slug |-> "feed-timeline", title |-> "Feed & Timeline Generation", category |-> "data",
     tags |-> <<"feed", "timeline", "fan-out", "ranking", "social">>,
     tagline |-> "Fan-out-on-write vs fan-out-on-read strategies for personalized content feeds"]

recommendationEngine ==
    [slug |-> "recommendation-engine", title |-> "recommendation-engine", category |-> "data", tags |-> <<>>, tagline |-> ""]

cachingStrategies ==
    [slug |-> "caching-strategies", title |-> "Caching Strategies", category |-> "data",
     tags |-> <<"caching", "Redis", "invalidation", "performance", "distributed">>,
     tagline |-> "Cache-aside, write-through, invalidation patterns, and distributed caching with Redis"]

rateLimiting ==
    [slug |-> "rate-limiting", title |-> "rate-limiting", category |-> "reliability", tags |-> <<>>, tagline |-> ""]

jobQueues ==
    [slug |-> "job-queues", title |-> "Job Queues & Background Workers", category |-> "reliability",
     tags |-> <<"queues", "background-jobs", "async", "workers", "retry">>,
     tagline |-> "Async task processing with retries, dead-letter queues, and priority scheduling"]

webhooks ==
    [slug |-> "webhooks", title |-> "Webhooks", category |-> "reliability",
     tags |-> <<"webhooks", "events", "HTTP", "retry", "HMAC", "integration">>,
     tagline |-> "Reliable event delivery to external systems with retry, HMAC verification, and monitoring"]

apiVersioning ==
    [slug |-> "api-versioning", title |-> "API Versioning", category |-> "reliability",
     tags |-> <<"API", "versioning", "REST", "backward-compatibility", "deprecation">>,
     tagline |-> "Backward-compatible API evolution with URL, header, and content negotiation strategies"]

e2eEncryption ==
    [slug |-> "e2e-encryption", title |-> "e2e-encryption", category |-> "security", tags |-> <<>>, tagline |-> ""]

oauth2SocialLogin ==
    [slug |-> "oauth2-social-login", title |-> "OAuth2 & Social Login", category |-> "security",
     tags |-> <<"OAuth2", "authentication", "social-login", "OIDC", "SSO">>,
     tagline |-> "Authorization code flow, token refresh, and provider federation for third-party authentication"]

paymentProcessing ==
    [slug |-> "payment-processing", title |-> "payment-processing", category |-> "security", tags |-> <<>>, tagline |-> ""]

auditLogging ==
    [slug |-> "audit-logging", title |-> "audit-logging", category |-> "security", tags |-> <<>>, tagline |-> ""]

fileUploadPipeline ==
    [slug |-> "file-upload-pipeline", title |-> "File Upload Pipeline", category |-> "media",
     tags |-> <<"upload", "files", "chunked", "resumable", "S3", "CDN">>,
     tagline |-> "Chunked and resumable uploads, server-side processing, and CDN delivery at scale"]

videoTranscoding ==
    [slug |-> "video-transcoding", title |-> "video-transcoding", category |-> "media", tags |-> <<>>, tagline |-> ""]

cdnAssetDelivery ==
    [slug |-> "cdn-asset-delivery", title |-> "CDN & Asset Delivery", category |-> "media",
     tags |-> <<"CDN", "caching", "edge", "performance", "Cloudflare", "CloudFront">>,
     tagline |-> "Origin shielding, cache hierarchies, purging strategies, and global content distribution"]

collaborativeEditing ==
    [slug |-> "collaborative-editing", title |-> "Collaborative Real-Time Editing", category |-> "collaboration",
     tags |-> <<"CRDT", "OT", "collaboration", "real-time", "conflict-resolution">>,
     tagline |-> "CRDTs vs Operational Transform for conflict-free concurrent document editing"]

urlShortener ==
    [slug |-> "url-shortener", title |-> "URL Shortener", category |-> "data",
     tags |-> <<"URL", "shortener", "redirect", "analytics", "hashing">>,
     tagline |-> "Short link generation, redirect resolution, and click analytics at scale"]

(***************************************************************************)
(* The rosters of the aggregation indexes.                                 *)
(***************************************************************************)
\* variant: the Google Drive record listed in the place of Google Photos
systemsIndexRepeated ==
    << whatsapp, instagram, telegram, netflix, uber, twitter, slack, discord,
       googleMeet, zoom, github, chatgpt, googleMaps, googleDrive,
       googleDrive, youtube, gmail >>

\* src/data/index.ts: export const systems
systemsIndex ==
    << whatsapp, instagram, telegram, netflix, uber, twitter, slack, discord,
       googleMeet, zoom, github, chatgpt, googleMaps, googleDrive,
       googlePhotos, youtube, gmail >>

\* the six-record version of the systems index
systemsLegacy ==
    << whatsapp, instagram, telegram, netflix, uber, twitter >>

\* src/data/guides/index.ts: export const guides
guidesIndex ==
    << sse, websocketInfra, presenceOnlineStatus, pushNotifications,
       customDomains, multiTenant, featureFlags, rbac, fullTextSearch,
       feedTimeline, recommendationEngine, cachingStrategies, rateLimiting,
       jobQueues, webhooks, apiVersioning, e2eEncryption, oauth2SocialLogin,
       paymentProcessing, auditLogging, fileUploadPipeline, videoTranscoding,
       cdnAssetDelivery, collaborativeEditing, urlShortener >>

(***************************************************************************)
(* Category configuration.  A Record<K, string> literal is a function      *)
(* from its keys; reading a key it does not have yields undefined.         *)
(***************************************************************************)
\* src/data/types.ts, re-exported by src/data/index.ts line 21
categoryLabels ==
    [messaging |-> "Messaging", social |-> "Social Media", streaming |-> "Streaming",
     transport |-> "Transportation", search |-> "Search & Discovery",
     commerce |-> "E-Commerce", infra |-> "Infrastructure"]

categoryColors ==
    [messaging |-> "bg-cat-messaging", social |-> "bg-cat-social",
     streaming |-> "bg-cat-streaming", transport |-> "bg-cat-transport",
     search |-> "bg-cat-search", commerce |-> "bg-cat-commerce",
     infra |-> "bg-cat-infra"]

\* src/lib/categories.ts
libCategoryLabels ==
    [messaging |-> "Messaging", social |-> "Social Media", streaming |-> "Streaming",
     transport |-> "Transportation", search |-> "Search & Discovery",
     commerce |-> "E-Commerce", infra |-> "Infrastructure",
     video |-> "Video & Conferencing", devtools |-> "Developer Tools",
     ai |-> "AI & ML", productivity |-> "Productivity"]

libCategoryColors ==
    [messaging |-> "bg-cat-messaging", social |-> "bg-cat-social",
     streaming |-> "bg-cat-streaming", transport |-> "bg-cat-transport",
     search |-> "bg-cat-search", commerce |-> "bg-cat-commerce",
     infra |-> "bg-cat-infra", video |-> "bg-cat-video",
     devtools |-> "bg-cat-devtools", ai |-> "bg-cat-ai",
     productivity |-> "bg-cat-productivity"]

guideCategoryLabels ==
    "real-time" :> "Real-Time & Communication" @@
    "platform" :> "SaaS Platform" @@
    "data" :> "Data & Search" @@
    "reliability" :> "Reliability & Infra" @@
    "security" :> "Security & Payments" @@
    "media" :> "Media & Files" @@
    "collaboration" :> "Collaboration & UX"

guideCategoryColors ==
    "real-time" :> "bg-gcat-realtime" @@
    "platform" :> "bg-gcat-platform" @@
    "data" :> "bg-gcat-data" @@
    "reliability" :> "bg-gcat-reliability" @@
    "security" :> "bg-gcat-security" @@
    "media" :> "bg-gcat-media" @@
    "collaboration" :> "bg-gcat-collaboration"

\* obj[key] of a Record literal
Lookup(obj, key) == IF key \in DOMAIN obj THEN obj[key] ELSE Undefined

\* type Category / type GuideCategory of src/lib/categories.ts
Category ==
    {"messaging", "social", "streaming", "transport", "search", "commerce",
     "infra", "video", "devtools", "ai", "productivity"}

GuideCategory ==
    {"real-time", "platform", "data", "reliability", "security", "media",
     "collaboration"}

(***************************************************************************)
(* Strings as the default Array.prototype.sort compares them: by their     *)
(* sequences of UTF-16 code units.                                         *)
(***************************************************************************)
\* the strings that occur as tags
TagStrings ==
    {"API", "APNs", "CDN", "CI/CD", "CNAME", "CRDT", "CloudFront",
     "Cloudflare", "DNS", "Elasticsearch", "EventSource", "FCM", "HMAC",
     "HTTP", "MTProto", "OAuth2", "OIDC", "OT", "RBAC", "REST", "Redis",
     "S3", "SSO", "SaaS", "TLS", "Typesense", "URL", "WebSocket", "XMPP",
     "ads", "analytics", "async", "authentication", "authorization",
     "background-jobs", "backward-compatibility", "bidirectional",
     "caching", "cassandra", "channels", "chunked", "cloud",
     "code-hosting", "collaboration", "communities", "conflict-resolution",
     "custom-domains", "deprecation", "developer-tools", "distributed",
     "django", "edge", "elixir", "encryption", "erlang", "events",
     "fan-out", "feed", "feeds", "files", "gaming", "geospatial", "git",
     "google", "hashing", "heartbeat", "integration", "invalidation",
     "inverted-index", "maps", "matching", "media", "messaging",
     "microservices", "mobile", "multi-tenant", "navigation",
     "notifications", "open-source", "performance", "permissions",
     "policy", "presence", "pub/sub", "push", "python", "queues",
     "ranking", "real-time", "recommendation", "redirect", "relevance",
     "resumable", "retry", "routing", "scaling", "search", "security",
     "sharing", "shortener", "social", "social-login", "status", "storage",
     "streaming", "sync", "timeline", "transcoding", "transport", "upload",
     "versioning", "video", "voice", "webhooks", "websocket", "workers"}

\* the UTF-16 code units of a tag string
UnitsOf(str) ==
    CASE str = "API" -> <<65, 80, 73>>
      [] str = "APNs" -> <<65, 80, 78, 115>>
      [] str = "CDN" -> <<67, 68, 78>>
      [] str = "CI/CD" -> <<67, 73, 47, 67, 68>>
      [] str = "CNAME" -> <<67, 78, 65, 77, 69>>
      [] str = "CRDT" -> <<67, 82, 68, 84>>
      [] str = "CloudFront" -> <<67, 108, 111, 117, 100, 70, 114, 111, 110, 116>>
      [] str = "Cloudflare" -> <<67, 108, 111, 117, 100, 102, 108, 97, 114, 101>>
      [] str = "DNS" -> <<68, 78, 83>>
      [] str = "Elasticsearch" -> <<69, 108, 97, 115, 116, 105, 99, 115, 101, 97, 114, 99, 104>>
      [] str = "EventSource" -> <<69, 118, 101, 110, 116, 83, 111, 117, 114, 99, 101>>
      [] str = "FCM" -> <<70, 67, 77>>
      [] str = "HMAC" -> <<72, 77, 65, 67>>
      [] str = "HTTP" -> <<72, 84, 84, 80>>
      [] str = "MTProto" -> <<77, 84, 80, 114, 111, 116, 111>>
      [] str = "OAuth2" -> <<79, 65, 117, 116, 104, 50>>
      [] str = "OIDC" -> <<79, 73, 68, 67>>
      [] str = "OT" -> <<79, 84>>
      [] str = "RBAC" -> <<82, 66, 65, 67>>
      [] str = "REST" -> <<82, 69, 83, 84>>
      [] str = "Redis" -> <<82, 101, 100, 105, 115>>
      [] str = "S3" -> <<83, 51>>
      [] str = "SSO" -> <<83, 83, 79>>
      [] str = "SaaS" -> <<83, 97, 97, 83>>
      [] str = "TLS" -> <<84, 76, 83>>
      [] str = "Typesense" -> <<84, 121, 112, 101, 115, 101, 110, 115, 101>>
      [] str = "URL" -> <<85, 82, 76>>
      [] str = "WebSocket" -> <<87, 101, 98, 83, 111, 99, 107, 101, 116>>
      [] str = "XMPP" -> <<88, 77, 80, 80>>
      [] str = "ads" -> <<97, 100, 115>>
      [] str = "analytics" -> <<97, 110, 97, 108, 121, 116, 105, 99, 115>>
      [] str = "async" -> <<97, 115, 121, 110, 99>>
      [] str = "authentication" -> <<97, 117, 116, 104, 101, 110, 116, 105, 99, 97, 116, 105, 111, 110>>
      [] str = "authorization" -> <<97, 117, 116, 104, 111, 114, 105, 122, 97, 116, 105, 111, 110>>
      [] str = "background-jobs" -> <<98, 97, 99, 107, 103, 114, 111, 117, 110, 100, 45, 106, 111, 98, 115>>
      [] str = "backward-compatibility" -> <<98, 97, 99, 107, 119, 97, 114, 100, 45, 99, 111, 109, 112, 97, 116, 105, 98, 105, 108, 105, 116, 121>>
      [] str = "bidirectional" -> <<98, 105, 100, 105, 114, 101, 99, 116, 105, 111, 110, 97, 108>>
      [] str = "caching" -> <<99, 97, 99, 104, 105, 110, 103>>
      [] str = "cassandra" -> <<99, 97, 115, 115, 97, 110, 100, 114, 97>>
      [] str = "channels" -> <<99, 104, 97, 110, 110, 101, 108, 115>>
      [] str = "chunked" -> <<99, 104, 117, 110, 107, 101, 100>>
      [] str = "cloud" -> <<99, 108, 111, 117, 100>>
      [] str = "code-hosting" -> <<99, 111, 100, 101, 45, 104, 111, 115, 116, 105, 110, 103>>
      [] str = "collaboration" -> <<99, 111, 108, 108, 97, 98, 111, 114, 97, 116, 105, 111, 110>>
      [] str = "communities" -> <<99, 111, 109, 109, 117, 110, 105, 116, 105, 101, 115>>
      [] str = "conflict-resolution" -> <<99, 111, 110, 102, 108, 105, 99, 116, 45, 114, 101, 115, 111, 108, 117, 116, 105, 111, 110>>
      [] str = "custom-domains" -> <<99, 117, 115, 116, 111, 109, 45, 100, 111, 109, 97, 105, 110, 115>>
      [] str = "deprecation" -> <<100, 101, 112, 114, 101, 99, 97, 116, 105, 111, 110>>
      [] str = "developer-tools" -> <<100, 101, 118, 101, 108, 111, 112, 101, 114, 45, 116, 111, 111, 108, 115>>
      [] str = "distributed" -> <<100, 105, 115, 116, 114, 105, 98, 117, 116, 101, 100>>
      [] str = "django" -> <<100, 106, 97, 110, 103, 111>>
      [] str = "edge" -> <<101, 100, 103, 101>>
      [] str = "elixir" -> <<101, 108, 105, 120, 105, 114>>
      [] str = "encryption" -> <<101, 110, 99, 114, 121, 112, 116, 105, 111, 110>>
      [] str = "erlang" -> <<101, 114, 108, 97, 110, 103>>
      [] str = "events" -> <<101, 118, 101, 110, 116, 115>>
      [] str = "fan-out" -> <<102, 97, 110, 45, 111, 117, 116>>
      [] str = "feed" -> <<102, 101, 101, 100>>
      [] str = "feeds" -> <<102, 101, 101, 100, 115>>
      [] str = "files" -> <<102, 105, 108, 101, 115>>
      [] str = "gaming" -> <<103, 97, 109, 105, 110, 103>>
      [] str = "geospatial" -> <<103, 101, 111, 115, 112, 97, 116, 105, 97, 108>>
      [] str = "git" -> <<103, 105, 116>>
      [] str = "google" -> <<103, 111, 111, 103, 108, 101>>
      [] str = "hashing" -> <<104, 97, 115, 104, 105, 110, 103>>
      [] str = "heartbeat" -> <<104, 101, 97, 114, 116, 98, 101, 97, 116>>
      [] str = "integration" -> <<105, 110, 116, 101, 103, 114, 97, 116, 105, 111, 110>>
      [] str = "invalidation" -> <<105, 110, 118, 97, 108, 105, 100, 97, 116, 105, 111, 110>>
      [] str = "inverted-index" -> <<105, 110, 118, 101, 114, 116, 101, 100, 45, 105, 110, 100, 101, 120>>
      [] str = "maps" -> <<109, 97, 112, 115>>
      [] str = "matching" -> <<109, 97, 116, 99, 104, 105, 110, 103>>
      [] str = "media" -> <<109, 101, 100, 105, 97>>
      [] str = "messaging" -> <<109, 101, 115, 115, 97, 103, 105, 110, 103>>
      [] str = "microservices" -> <<109, 105, 99, 114, 111, 115, 101, 114, 118, 105, 99, 101, 115>>
      [] str = "mobile" -> <<109, 111, 98, 105, 108, 101>>
      [] str = "multi-tenant" -> <<109, 117, 108, 116, 105, 45, 116, 101, 110, 97, 110, 116>>
      [] str = "navigation" -> <<110, 97, 118, 105, 103, 97, 116, 105, 111, 110>>
      [] str = "notifications" -> <<110, 111, 116, 105, 102, 105, 99, 97, 116, 105, 111, 110, 115>>
      [] str = "open-source" -> <<111, 112, 101, 110, 45, 115, 111, 117, 114, 99, 101>>
      [] str = "performance" -> <<112, 101, 114, 102, 111, 114, 109, 97, 110, 99, 101>>
      [] str = "permissions" -> <<112, 101, 114, 109, 105, 115, 115, 105, 111, 110, 115>>
      [] str = "policy" -> <<112, 111, 108, 105, 99, 121>>
      [] str = "presence" -> <<112, 114, 101, 115, 101, 110, 99, 101>>
      [] str = "pub/sub" -> <<112, 117, 98, 47, 115, 117, 98>>
      [] str = "push" -> <<112, 117, 115, 104>>
      [] str = "python" -> <<112, 121, 116, 104, 111, 110>>
      [] str = "queues" -> <<113, 117, 101, 117, 101, 115>>
      [] str = "ranking" -> <<114, 97, 110, 107, 105, 110, 103>>
      [] str = "real-time" -> <<114, 101, 97, 108, 45, 116, 105, 109, 101>>
      [] str = "recommendation" -> <<114, 101, 99, 111, 109, 109, 101, 110, 100, 97, 116, 105, 111, 110>>
      [] str = "redirect" -> <<114, 101, 100, 105, 114, 101, 99, 116>>
      [] str = "relevance" -> <<114, 101, 108, 101, 118, 97, 110, 99, 101>>
      [] str = "resumable" -> <<114, 101, 115, 117, 109, 97, 98, 108, 101>>
      [] str = "retry" -> <<114, 101, 116, 114, 121>>
      [] str = "routing" -> <<114, 111, 117, 116, 105, 110, 103>>
      [] str = "scaling" -> <<115, 99, 97, 108, 105, 110, 103>>
      [] str = "search" -> <<115, 101, 97, 114, 99, 104>>
      [] str = "security" -> <<115, 101, 99, 117, 114, 105, 116, 121>>
      [] str = "sharing" -> <<115, 104, 97, 114, 105, 110, 103>>
      [] str = "shortener" -> <<115, 104, 111, 114, 116, 101, 110, 101, 114>>
      [] str = "social" -> <<115, 111, 99, 105, 97, 108>>
      [] str = "social-login" -> <<115, 111, 99, 105, 97, 108, 45, 108, 111, 103, 105, 110>>
      [] str = "status" -> <<115, 116, 97, 116, 117, 115>>
      [] str = "storage" -> <<115, 116, 111, 114, 97, 103, 101>>
      [] str = "streaming" -> <<115, 116, 114, 101, 97, 109, 105, 110, 103>>
      [] str = "sync" -> <<115, 121, 110, 99>>
      [] str = "timeline" -> <<116, 105, 109, 101, 108, 105, 110, 101>>
      [] str = "transcoding" -> <<116, 114, 97, 110, 115, 99, 111, 100, 105, 110, 103>>
      [] str = "transport" -> <<116, 114, 97, 110, 115, 112, 111, 114, 116>>
      [] str = "upload" -> <<117, 112, 108, 111, 97, 100>>
      [] str = "versioning" -> <<118, 101, 114, 115, 105, 111, 110, 105, 110, 103>>
      [] str = "video" -> <<118, 105, 100, 101, 111>>
      [] str = "voice" -> <<118, 111, 105, 99, 101>>
      [] str = "webhooks" -> <<119, 101, 98, 104, 111, 111, 107, 115>>
      [] str = "websocket" -> <<119, 101, 98, 115, 111, 99, 107, 101, 116>>
      [] str = "workers" -> <<119, 111, 114, 107, 101, 114, 115>>

CodeUnits == [str \in TagStrings |-> UnitsOf(str)] @@ <<>>

\* a < b on code-unit sequences: at the first differing unit the smaller
\* unit decides; a proper prefix is smaller
UnitsLess(a, b) ==
    \E k \in 1..(Len(a) + 1) :
        /\ \A i \in 1..(k - 1) : i <= Len(b) /\ a[i] = b[i]
        /\ k <= Len(b)
        /\ k <= Len(a) => a[k] < b[k]

StrLess(s, t) == UnitsLess(CodeUnits[s], CodeUnits[t])

(***************************************************************************)
(* Array and Set helpers.                                                  *)
(***************************************************************************)
Range(seq) == {seq[i] : i \in 1..Len(seq)}

\* the sequences over S of length at most n
SeqsUpTo(S, n) == UNION {[1..k -> S] : k \in 0..n}

\* [...new Set(arr)]: the distinct elements in order of first occurrence
FirstOccurrences(arr) ==
    {i \in 1..Len(arr) : \A j \in 1..(i - 1) : arr[j] # arr[i]}

\* the elements of arr at the positions keep, in increasing position
Pick(arr, keep) ==
    <<>> \o [k \in 1..Cardinality(keep) |->
                arr[CHOOSE i \in keep : Cardinality({j \in keep : j <= i}) = k]]

SetSpread(arr) == Pick(arr, FirstOccurrences(arr))

\* arr.flatMap((s) => s.tags)
RECURSIVE FlatMapTags(_)
FlatMapTags(arr) ==
    IF arr = <<>> THEN <<>>
    ELSE Head(arr).tags \o FlatMapTags(Tail(arr))

\* arr.map((s) => s.category)
MapCategory(arr) == <<>> \o [i \in 1..Len(arr) |-> arr[i].category]

\* arr.sort() with the default comparator: a stable sort, ascending by code
\* units.  Element i moves to the position after the elements smaller than it
\* and the equal elements before it.
SortedPosition(arr) ==
    <<>> \o [i \in 1..Len(arr) |->
                Cardinality({j \in 1..Len(arr) : StrLess(arr[j], arr[i])})
                + Cardinality({j \in 1..(i - 1) : arr[j] = arr[i]}) + 1]

Permute(arr, pos) ==
    <<>> \o [k \in 1..Len(arr) |-> arr[CHOOSE i \in 1..Len(arr) : pos[i] = k]]

Sort(arr) == Permute(arr, SortedPosition(arr))

\* arr.find(pred) for pred = (s) => s.slug === slug
FindBySlug(arr, slug) ==
    LET hits == {i \in 1..Len(arr) : arr[i].slug = slug}
    IN  IF hits = {} THEN Undefined
        ELSE arr[CHOOSE i \in hits : \A j \in hits : i <= j]

\* arr.filter(pred) for pred = (s) => s.category === category
FilterByCategory(arr, category) ==
    SelectSeq(arr, LAMBDA s : s.category = category)

(***************************************************************************)
(* State.                                                                  *)
(***************************************************************************)
VARIABLES
    systems,    \* the systems array of the systems index module
    guides,     \* the guides array of the guides index module
    ret,        \* the last call of an index function: [op, arg, val]
    doc,        \* the content document being loaded: [collection, data]
    entry,      \* the outcome of loading doc: none yet, an entry, or an error
    og,         \* the invocations of the OG-image GET handlers
    calls       \* the calls of the prompt generators so far: [fn, arg, out]

vars == <<systems, guides, ret, doc, entry, og, calls>>

(***************************************************************************)
(* The index functions (src/data/index.ts, src/data/guides/index.ts).      *)
(***************************************************************************)
\* variant: the last match instead of the first (findLast for find)
getSystemBySlugLast(slug) ==
    LET hits == {i \in 1..Len(systems) : systems[i].slug = slug}
    IN  IF hits = {} THEN Undefined
        ELSE systems[CHOOSE i \in hits : \A j \in hits : j <= i]

getSystemBySlug(slug) == FindBySlug(systems, slug)

\* variant: at most the first matching record (find for filter)
getSystemsByCategoryFirst(category) ==
    IF FilterByCategory(systems, category) = <<>> THEN <<>>
    ELSE <<Head(FilterByCategory(systems, category))>>

getSystemsByCategory(category) == FilterByCategory(systems, category)

\* variant: the categories of all records, without the Set
getAllCategoriesNoSet == MapCategory(systems)

getAllCategories == SetSpread(MapCategory(systems))

\* variant: the trailing .sort() left out
getAllTagsUnsorted == SetSpread(FlatMapTags(systems))

getAllTags == Sort(SetSpread(FlatMapTags(systems)))

getGuideBySlug(slug) == FindBySlug(guides, slug)

\* variant: the filter applied to the systems roster
getGuidesByCategoryOfSystems(category) == FilterByCategory(systems, category)

getGuidesByCategory(category) == FilterByCategory(guides, category)

getAllGuideCategories == SetSpread(MapCategory(guides))

getAllGuideTags == Sort(SetSpread(FlatMapTags(guides)))

(***************************************************************************)
(* Calls of the index functions.  A call reads the rosters and returns;    *)
(* the returned value is recorded in ret.                                  *)
(***************************************************************************)
Slugs(arr) == {arr[i].slug : i \in 1..Len(arr)}

\* the categories some record of the roster has
CategoriesOf(arr) == {arr[i].category : i \in 1..Len(arr)}

\* categories asked for besides those in use: valid values of the enumerations
\* that no system record (no drawn guide record) has
ProbeCategory == "commerce"
ProbeGuideCategory == "collaboration"

\* a slug that no record has
NoSuchSlug == "nonexistent"

NoCall == [op |-> "none", arg |-> "", val |-> <<>>]

CallGetSystemBySlug ==
    \E slug \in Slugs(systems) \cup {NoSuchSlug} :
        /\ ret' = [op |-> "getSystemBySlug", arg |-> slug,
                   val |-> getSystemBySlug(slug)]
        /\ UNCHANGED <<systems, guides, doc, entry, og, calls>>

CallGetSystemsByCategory ==
    \E category \in CategoriesOf(systems) \cup {ProbeCategory} :
        /\ ret' = [op |-> "getSystemsByCategory", arg |-> category,
                   val |-> getSystemsByCategory(category)]
        /\ UNCHANGED <<systems, guides, doc, entry, og, calls>>

CallGetAllCategories ==
    /\ ret' = [op |-> "getAllCategories", arg |-> "", val |-> getAllCategories]
    /\ UNCHANGED <<systems, guides, doc, entry, og, calls>>

\* variant: the tags lists of the records sorted where they are
CallGetAllTagsSortingInPlace ==
    /\ ret' = [op |-> "getAllTags", arg |-> "", val |-> getAllTags]
    /\ systems' = <<>> \o [i \in 1..Len(systems) |->
                               [systems[i] EXCEPT !.tags = Sort(systems[i].tags)]]
    /\ UNCHANGED <<guides, doc, entry, og, calls>>

CallGetAllTags ==
    /\ ret' = [op |-> "getAllTags", arg |-> "", val |-> getAllTags]
    /\ UNCHANGED <<systems, guides, doc, entry, og, calls>>

CallGetGuideBySlug ==
    \E slug \in Slugs(guides) \cup {NoSuchSlug} :
        /\ ret' = [op |-> "getGuideBySlug", arg |-> slug,
                   val |-> getGuideBySlug(slug)]
        /\ UNCHANGED <<systems, guides, doc, entry, og, calls>>

CallGetGuidesByCategory ==
    \E category \in CategoriesOf(guides) \cup {ProbeGuideCategory} :
        /\ ret' = [op |-> "getGuidesByCategory", arg |-> category,
                   val |-> getGuidesByCategory(category)]
        /\ UNCHANGED <<systems, guides, doc, entry, og, calls>>

CallGetAllGuideCategories ==
    /\ ret' = [op |-> "getAllGuideCategories", arg |-> "",
               val |-> getAllGuideCategories]
    /\ UNCHANGED <<systems, guides, doc, entry, og, calls>>

CallGetAllGuideTags ==
    /\ ret' = [op |-> "getAllGuideTags", arg |-> "", val |-> getAllGuideTags]
    /\ UNCHANGED <<systems, guides, doc, entry, og, calls>>

IndexCall ==
    \/ CallGetSystemBySlug
    \/ CallGetSystemsByCategory
    \/ CallGetAllCategories
    \/ CallGetAllTags
    \/ CallGetGuideBySlug
    \/ CallGetGuidesByCategory
    \/ CallGetAllGuideCategories
    \/ CallGetAllGuideTags


(***************************************************************************)
(* Content schema (src/content.config.ts).  Front-matter values are        *)
(* tagged with their JavaScript type; a key the front matter does not have *)
(* reads as undefined.                                                     *)
(***************************************************************************)
VString(s) == [type |-> "string", str |-> s]
VNumber == [type |-> "number"]
VArray(items) == [type |-> "array", items |-> items]
VUndefined == [type |-> "undefined"]

\* z.string(), z.enum([...]), z.array(element)
ZString == [kind |-> "string"]
ZEnum(values) == [kind |-> "enum", values |-> values]
ZArray(element) == [kind |-> "array", element |-> element]

\* variant: the systems schema with the seven original categories only
systemsSchemaSeven ==
    [name |-> ZString,
     tagline |-> ZString,
     category |-> ZEnum(<<"messaging", "social", "streaming", "transport",
                          "search", "commerce", "infra">>),
     tags |-> ZArray(ZString)]

\* variant: the systems schema with category: z.string()
systemsSchemaAnyCategory ==
    [name |-> ZString,
     tagline |-> ZString,
     category |-> ZString,
     tags |-> ZArray(ZString)]

\* the schema of the systems collection
systemsSchema ==
    [name |-> ZString,
     tagline |-> ZString,
     category |-> ZEnum(<<"messaging", "social", "streaming", "transport",
                          "search", "commerce", "infra", "video", "devtools",
                          "ai", "productivity">>),
     tags |-> ZArray(ZString)]

\* the schema of the guides collection
guidesSchema ==
    [title |-> ZString,
     tagline |-> ZString,
     category |-> ZEnum(<<"real-time", "platform", "data", "reliability",
                          "security", "media", "collaboration">>),
     tags |-> ZArray(ZString)]

\* export const collections = { systems, guides }
collections == [systems |-> systemsSchema, guides |-> guidesSchema]

\* does a string or enum schema accept the value
ZAcceptsScalar(z, v) ==
    CASE z.kind = "string" -> v.type = "string"
      [] z.kind = "enum" -> v.type = "string" /\ v.str \in Range(z.values)
      [] OTHER -> FALSE

\* does the schema accept the value; undefined is accepted by none
ZAccepts(z, v) ==
    IF z.kind = "array"
    THEN /\ v.type = "array"
         /\ \A i \in 1..Len(v.items) : ZAcceptsScalar(z.element, v.items[i])
    ELSE ZAcceptsScalar(z, v)

\* the keys of the object schema whose value fails its schema
ZIssues(shape, data) == {k \in DOMAIN shape : ~ZAccepts(shape[k], data[k])}

\* z.object(shape) applied to the front matter: the parsed data, or the error
\* that fails the load
ZParseObject(shape, data) ==
    IF ZIssues(shape, data) = {}
    THEN [status |-> "entry", data |-> [k \in DOMAIN shape |-> data[k]],
          issues |-> {}]
    ELSE [status |-> "error", data |-> <<>>, issues |-> ZIssues(shape, data)]

NoEntry == [status |-> "pending", data |-> <<>>, issues |-> {}]

NoDocument == [collection |-> "none", data |-> <<>>]

\* loading one document of the systems collection
LoadSystemsDocument ==
    /\ doc.collection = "systems"
    /\ entry = NoEntry
    /\ entry' = ZParseObject(collections.systems, doc.data)
    /\ UNCHANGED <<systems, guides, ret, doc, og, calls>>

\* loading one document of the guides collection
LoadGuidesDocument ==
    /\ doc.collection = "guides"
    /\ entry = NoEntry
    /\ entry' = ZParseObject(collections.guides, doc.data)
    /\ UNCHANGED <<systems, guides, ret, doc, og, calls>>

(***************************************************************************)
(* The documents drawn for SpecSchema.                                     *)
(***************************************************************************)
\* a string that is a category of neither enumeration
NoSuchCategory == "gaming"

TextPool == {VUndefined, VNumber, VString("Acme")}

CategoryValuePool ==
    {VUndefined, VNumber}
        \cup {VString(c) : c \in Category \cup GuideCategory \cup {NoSuchCategory}}

TagItemPool == {VString("caching"), VNumber}

TagsValuePool ==
    {VUndefined, VString("caching")}
        \cup {VArray(items) : items \in SeqsUpTo(TagItemPool, MaxTags)}

SystemsDocumentPool ==
    [name : TextPool, tagline : TextPool, category : CategoryValuePool,
     tags : TagsValuePool]

GuidesDocumentPool ==
    [title : TextPool, tagline : TextPool, category : CategoryValuePool,
     tags : TagsValuePool]

(***************************************************************************)
(* OG-image endpoints (src/pages/og/[slug].png.ts,                         *)
(* src/pages/og/guides/[slug].png.ts, src/pages/og/default.png.ts).        *)
(***************************************************************************)
\* most invocations of GET handlers in flight at once
MaxRequests == 2
\* an invocation followed alone starts from one of the first MaxPaths paths
\* of its route
MaxPaths == 1

Requests == 1..MaxRequests

\* variant: the paths listed from the last record to the first
SystemPathsOfReversed(arr) ==
    <<>> \o [i \in 1..Len(arr) |->
                [params |-> [slug |-> arr[Len(arr) + 1 - i].slug],
                 props |-> [system |-> arr[Len(arr) + 1 - i]]]]

\* systems.map((system) => ({ params: { slug }, props: { system } }))
SystemPathsOf(arr) ==
    <<>> \o [i \in 1..Len(arr) |->
                [params |-> [slug |-> arr[i].slug],
                 props |-> [system |-> arr[i]]]]

\* guides.map((guide) => ({ params: { slug }, props: { guide } }))
GuidePathsOf(arr) ==
    <<>> \o [i \in 1..Len(arr) |->
                [params |-> [slug |-> arr[i].slug],
                 props |-> [guide |-> arr[i]]]]

\* getStaticPaths of the per-system route
systemStaticPaths == SystemPathsOf(systems)

\* getStaticPaths of the per-guide route
guideStaticPaths == GuidePathsOf(guides)

\* variant: the element at index end taken too
SliceInclusive(arr, start, end) ==
    SubSeq(arr, start + 1, IF end + 1 < Len(arr) THEN end + 1 ELSE Len(arr))

\* Array.prototype.slice(start, end) with 0 <= start <= end
Slice(arr, start, end) ==
    SubSeq(arr, start + 1, IF end < Len(arr) THEN end ELSE Len(arr))

\* Object.entries: the [key, value] pairs of the own properties, in property
\* order (the keys of a scale map are metric labels, none integer-like)
ObjectEntries(obj) ==
    <<>> \o [i \in 1..Len(obj) |-> <<obj[i].key, obj[i].value>>]

\* obj[key] ?? fallback, for a table whose values are strings
LookupOr(obj, key, fallback) ==
    IF key \in DOMAIN obj THEN obj[key] ELSE fallback

\* the children of an element whose children property is obj[key]: the text,
\* or nothing where the read yields undefined
LookupChildren(obj, key) ==
    IF key \in DOMAIN obj THEN <<obj[key]>> ELSE <<>>

\* categoryColor of the per-system generator
ogSystemCategoryColor ==
    "messaging" :> "#2d6a4f" @@ "social" :> "#7b2d8b" @@ "streaming" :> "#c2185b"
        @@ "transport" :> "#1565c0" @@ "search" :> "#e65100"
        @@ "commerce" :> "#4e342e" @@ "infra" :> "#37474f"

\* categoryColor of the per-guide generator
ogGuideCategoryColor ==
    "real-time" :> "#0d7377" @@ "platform" :> "#5b21b6" @@ "data" :> "#b45309"
        @@ "reliability" :> "#064e3b" @@ "security" :> "#991b1b"
        @@ "media" :> "#7c3aed" @@ "collaboration" :> "#0369a1"

\* variant: the ink color of the titles as the fallback
FallbackColorInk == "#1a1a1a"

\* the color of a category the local table does not have
FallbackColor == "#6b4c3b"

\* the root element of every layout
LayoutRoot == [width |-> "1200px", height |-> "630px", backgroundColor |-> "#fafaf8"]

\* variant: the bottom row built from every scale entry
SystemLayoutAllEntries(system) ==
    LET color == LookupOr(ogSystemCategoryColor, system.category, FallbackColor)
        scaleEntries == ObjectEntries(system.scale)
    IN  [root |-> LayoutRoot,
         accentBar |-> [backgroundColor |-> color],
         circles |-> << [backgroundColor |-> color, opacity |-> "0.04"] >>,
         badge |-> [backgroundColor |-> color,
                    children |-> LookupChildren(categoryLabels, system.category)],
         eyebrow |-> [color |-> color, children |-> "System Design & Architecture"],
         title |-> [fontSize |-> "64px", children |-> "How to Build " \o system.name],
         tagline |-> [children |-> system.tagline],
         bottom |-> <<>> \o [i \in 1..Len(scaleEntries) |->
                       << [color |-> color, children |-> scaleEntries[i][2]],
                          [color |-> "#8a8a8a", children |-> scaleEntries[i][1]] >>]]

\* the layout tree the per-system generator hands to satori: the elements
\* that carry a color or a text, in tree order; each bottom item is the value
\* span then the key span
SystemLayout(system) ==
    LET color == LookupOr(ogSystemCategoryColor, system.category, FallbackColor)
        scaleEntries == Slice(ObjectEntries(system.scale), 0, 4)
    IN  [root |-> LayoutRoot,
         accentBar |-> [backgroundColor |-> color],
         circles |-> << [backgroundColor |-> color, opacity |-> "0.04"] >>,
         badge |-> [backgroundColor |-> color,
                    children |-> LookupChildren(categoryLabels, system.category)],
         eyebrow |-> [color |-> color, children |-> "System Design & Architecture"],
         title |-> [fontSize |-> "64px", children |-> "How to Build " \o system.name],
         tagline |-> [children |-> system.tagline],
         bottom |-> <<>> \o [i \in 1..Len(scaleEntries) |->
                       << [color |-> color, children |-> scaleEntries[i][2]],
                          [color |-> "#8a8a8a", children |-> scaleEntries[i][1]] >>]]

\* the layout tree of the per-guide generator
GuideLayout(guide) ==
    LET color == LookupOr(ogGuideCategoryColor, guide.category, FallbackColor)
        tagList == Slice(guide.tags, 0, 5)
    IN  [root |-> LayoutRoot,
         accentBar |-> [backgroundColor |-> color],
         circles |-> << [backgroundColor |-> color, opacity |-> "0.05"],
                        [backgroundColor |-> color, opacity |-> "0.03"] >>,
         badge |-> [backgroundColor |-> color,
                    children |-> LookupChildren(guideCategoryLabels, guide.category)],
         eyebrow |-> [color |-> color, children |-> "Feature Guide"],
         title |-> [fontSize |-> "60px", children |-> guide.title],
         tagline |-> [children |-> guide.tagline],
         bottom |-> <<>> \o [i \in 1..Len(tagList) |->
                       [color |-> "#6b6b6b", children |-> tagList[i]]]]

\* the layout tree of the default generator: a centered column, no badge and
\* no bottom row
DefaultLayout ==
    [root |-> LayoutRoot,
     accentBar |-> [backgroundColor |-> FallbackColor],
     circles |-> << [backgroundColor |-> FallbackColor, opacity |-> "0.04"],
                    [backgroundColor |-> FallbackColor, opacity |-> "0.03"] >>,
     eyebrow |-> [color |-> FallbackColor, children |-> "The Encyclopedia of"],
     title |-> [fontSize |-> "72px", children |-> "System Design & Architecture"],
     tagline |-> [children |->
         "Deep-dive into the architectures powering the world's most popular applications."]]

NoLayout == [root |-> "none"]

\* the element a handler hands to satori
LayoutOf(route, props) ==
    CASE route = "system" -> SystemLayout(props.system)
      [] route = "guide" -> GuideLayout(props.guide)
      [] route = "default" -> DefaultLayout

\* variant: a canvas of the common Open Graph size 1200 by 627
SatoriCanvasShort == [width |-> 1200, height |-> 627]

\* width and height of the options handed to satori
SatoriCanvas == [width |-> 1200, height |-> 630]

NoCanvas == [width |-> 0, height |-> 0]

\* fitTo of the options handed to Resvg
ResvgFitTo == [mode |-> "width", value |-> 1200]

NoFitTo == [mode |-> "none", value |-> 0]

\* the three loadGoogleFont calls of a GET handler, in Promise.all order
FontLoads ==
    << [family |-> "Playfair Display", weight |-> 700],
       [family |-> "Inter", weight |-> 400],
       [family |-> "Inter", weight |-> 600] >>

\* what a font load holds: nothing yet, the bytes of the font file of a family
\* and weight, or the body of a response that is not a font file (fetch
\* resolves on an HTTP error status too, and the status is not looked at)
NoData == [kind |-> "none"]
FontData(font) == [kind |-> "font", family |-> font.family, weight |-> font.weight]
OtherBody == [kind |-> "other"]

\* a loadGoogleFont call: where it is, how many fetches it has issued, why it
\* rejected, and the buffer it resolved with
LoadIdle == [step |-> "idle", fetches |-> 0, reason |-> "", data |-> NoData]

\* fetch(url) of the stylesheet issued; awaiting it
LoadStarted == [step |-> "css", fetches |-> 1, reason |-> "", data |-> NoData]

LoadRejected(load, reason) == [load EXCEPT !.step = "rejected", !.reason = reason]

NoResponse == [status |-> 0, headers |-> <<>>, body |-> ""]

PngResponse ==
    [status |-> 200,
     headers |-> [ContentType |-> "image/png",
                  CacheControl |-> "public, max-age=31536000, immutable"],
     body |-> "png"]

IdleRequest ==
    [route |-> "none", props |-> <<>>, pc |-> "idle",
     loads |-> <<LoadIdle, LoadIdle, LoadIdle>>,
     layout |-> NoLayout, canvas |-> NoCanvas,
     satoriFonts |-> <<>>, satoriCalls |-> 0,
     fitTo |-> NoFitTo, resvgCalls |-> 0,
     response |-> NoResponse]

\* variant: the two Inter buffers taken in the other order
SatoriFontsSwapped(loads) ==
    << [name |-> "Playfair Display", data |-> loads[1].data, weight |-> 700, style |-> "normal"],
       [name |-> "Inter", data |-> loads[3].data, weight |-> 400, style |-> "normal"],
       [name |-> "Inter", data |-> loads[2].data, weight |-> 600, style |-> "normal"] >>

\* the fonts option handed to satori
SatoriFonts(loads) ==
    << [name |-> "Playfair Display", data |-> loads[1].data, weight |-> 700, style |-> "normal"],
       [name |-> "Inter", data |-> loads[2].data, weight |-> 400, style |-> "normal"],
       [name |-> "Inter", data |-> loads[3].data, weight |-> 600, style |-> "normal"] >>

\* the framework invokes a GET handler with the props of one of the route's
\* paths; the handler calls loadGoogleFont three times, each running up to its
\* first await, and awaits Promise.all of the three
StartRequest(r, route, props) ==
    /\ og[r].pc = "idle"
    /\ og' = [og EXCEPT ![r] = [IdleRequest EXCEPT
                 !.route = route, !.props = props, !.pc = "fonts",
                 !.loads = <<LoadStarted, LoadStarted, LoadStarted>>]]
    /\ UNCHANGED <<systems, guides, ret, doc, entry, calls>>

StartSystemGET(r) ==
    \E i \in 1..MaxPaths :
        /\ i <= Len(systemStaticPaths)
        /\ StartRequest(r, "system", systemStaticPaths[i].props)

StartGuideGET(r) ==
    \E i \in 1..MaxPaths :
        /\ i <= Len(guideStaticPaths)
        /\ StartRequest(r, "guide", guideStaticPaths[i].props)

StartDefaultGET(r) == StartRequest(r, "default", <<>>)

\* variant: Promise.allSettled for Promise.all, the handler going on to satori
\* once every load has settled
AfterRejectionSettled(req, i, reason) ==
    LET loads == [req.loads EXCEPT ![i] = LoadRejected(@, reason)]
        all == \A j \in 1..3 : loads[j].step \in {"resolved", "rejected"}
    IN  [req EXCEPT !.loads = loads,
                    !.pc = IF req.pc = "fonts" /\ all THEN "satori" ELSE req.pc,
                    !.satoriCalls = IF req.pc = "fonts" /\ all
                                    THEN req.satoriCalls + 1 ELSE req.satoriCalls]

\* a rejected load rejects Promise.all, and the handler, still awaiting it, ends
\* in that error; a handler that has ended is not affected
AfterRejection(req, i, reason) ==
    [req EXCEPT !.loads[i] = LoadRejected(req.loads[i], reason),
                !.pc = IF req.pc = "fonts" THEN "failed" ELSE req.pc]

\* a resolved load: once all three have resolved Promise.all resolves and the
\* handler calls satori with the layout and the three buffers
AfterResolution(req, i, data) ==
    LET loads == [req.loads EXCEPT ![i] = [@ EXCEPT !.step = "resolved", !.data = data]]
        all == \A j \in 1..3 : loads[j].step = "resolved"
    IN  [req EXCEPT !.loads = loads,
                    !.pc = IF req.pc = "fonts" /\ all THEN "satori" ELSE req.pc,
                    !.layout = IF req.pc = "fonts" /\ all
                               THEN LayoutOf(req.route, req.props) ELSE req.layout,
                    !.canvas = IF req.pc = "fonts" /\ all
                               THEN SatoriCanvas ELSE req.canvas,
                    !.satoriFonts = IF req.pc = "fonts" /\ all
                                    THEN SatoriFonts(loads) ELSE req.satoriFonts,
                    !.satoriCalls = IF req.pc = "fonts" /\ all
                                    THEN req.satoriCalls + 1 ELSE req.satoriCalls]

\* await fetch(url) rejects (or reading the stylesheet text does)
StylesheetFetchFails(r, i) ==
    /\ og[r].loads[i].step = "css"
    /\ og' = [og EXCEPT ![r] = AfterRejection(og[r], i, "stylesheet fetch failed")]
    /\ UNCHANGED <<systems, guides, ret, doc, entry, calls>>

\* variant: the stylesheet promise of a family and weight shared by the
\* invocations, its failure rejecting the load of each of them
StylesheetWithoutUrlShared(r, i) ==
    /\ og[r].loads[i].step = "css"
    /\ og' = [q \in Requests |->
                 IF og[q].loads[i].step = "css"
                 THEN AfterRejection(og[q], i, "Font URL not found")
                 ELSE og[q]]
    /\ UNCHANGED <<systems, guides, ret, doc, entry, calls>>

\* the text received has no src: url(...): the load throws
StylesheetWithoutUrl(r, i) ==
    /\ og[r].loads[i].step = "css"
    /\ og' = [og EXCEPT ![r] = AfterRejection(og[r], i, "Font URL not found")]
    /\ UNCHANGED <<systems, guides, ret, doc, entry, calls>>

\* the text received has a src: url(...): the load fetches that url
StylesheetWithUrl(r, i) ==
    /\ og[r].loads[i].step = "css"
    /\ og' = [og EXCEPT ![r].loads[i] = [@ EXCEPT !.step = "font", !.fetches = @ + 1]]
    /\ UNCHANGED <<systems, guides, ret, doc, entry, calls>>

\* await fetch(match[1]) rejects (or reading the body does)
FontFetchFails(r, i) ==
    /\ og[r].loads[i].step = "font"
    /\ og' = [og EXCEPT ![r] = AfterRejection(og[r], i, "font fetch failed")]
    /\ UNCHANGED <<systems, guides, ret, doc, entry, calls>>

\* the font file arrives: the load resolves with its bytes
FontArrives(r, i) ==
    /\ og[r].loads[i].step = "font"
    /\ og' = [og EXCEPT ![r] = AfterResolution(og[r], i, FontData(FontLoads[i]))]
    /\ UNCHANGED <<systems, guides, ret, doc, entry, calls>>

\* the fetch resolves with a response that is not the font file: the load
\* resolves with the bytes of that body
OtherBodyArrives(r, i) ==
    /\ og[r].loads[i].step = "font"
    /\ og' = [og EXCEPT ![r] = AfterResolution(og[r], i, OtherBody)]
    /\ UNCHANGED <<systems, guides, ret, doc, entry, calls>>

\* satori resolves with the svg; the handler rasterizes it with Resvg and
\* returns the response
SatoriResolves(r) ==
    /\ og[r].pc = "satori"
    /\ \A j \in 1..3 : og[r].satoriFonts[j].data.kind = "font"
    /\ og' = [og EXCEPT ![r] = [@ EXCEPT !.pc = "responded",
                                         !.fitTo = ResvgFitTo,
                                         !.resvgCalls = @ + 1,
                                         !.response = PngResponse]]
    /\ UNCHANGED <<systems, guides, ret, doc, entry, calls>>

\* satori rejects: a buffer it was given is not a font
SatoriRejects(r) ==
    /\ og[r].pc = "satori"
    /\ \E j \in 1..3 : og[r].satoriFonts[j].data.kind # "font"
    /\ og' = [og EXCEPT ![r] = [@ EXCEPT !.pc = "failed"]]
    /\ UNCHANGED <<systems, guides, ret, doc, entry, calls>>

\* the steps of the invocation r
OGStepOf(r) ==
    \/ StartSystemGET(r)
    \/ StartGuideGET(r)
    \/ StartDefaultGET(r)
    \/ \E i \in 1..3 :
          \/ StylesheetFetchFails(r, i)
          \/ StylesheetWithoutUrl(r, i)
          \/ StylesheetWithUrl(r, i)
          \/ FontFetchFails(r, i)
          \/ FontArrives(r, i)
          \/ OtherBodyArrives(r, i)
    \/ SatoriResolves(r)
    \/ SatoriRejects(r)

\* an invocation followed alone
OGStep == OGStepOf(1)

\* the path the build hands to its r-th invocation: the paths of the three
\* routes taken in turn
BuildPath(r) ==
    CASE r % 3 = 1 -> [route |-> "system", props |-> systemStaticPaths[(r + 2) \div 3].props]
      [] r % 3 = 2 -> [route |-> "guide", props |-> guideStaticPaths[(r + 1) \div 3].props]
      [] r % 3 = 0 -> [route |-> "default", props |-> <<>>]

\* the build invokes the GET handler of its r-th path
InvokePath(r) == StartRequest(r, BuildPath(r).route, BuildPath(r).props)

(***************************************************************************)
(* The functions of the OG routes applied on their own: the layout a       *)
(* generator builds from its props, and getStaticPaths.  The result is     *)
(* recorded in ret.                                                        *)
(***************************************************************************)
BuildSystemLayout ==
    \E i \in 1..Len(systems) :
        /\ ret' = [op |-> "SystemLayout", arg |-> systems[i],
                   val |-> SystemLayout(systems[i])]
        /\ UNCHANGED <<systems, guides, doc, entry, og, calls>>

BuildGuideLayout ==
    \E i \in 1..Len(guides) :
        /\ ret' = [op |-> "GuideLayout", arg |-> guides[i],
                   val |-> GuideLayout(guides[i])]
        /\ UNCHANGED <<systems, guides, doc, entry, og, calls>>

BuildDefaultLayout ==
    /\ ret' = [op |-> "DefaultLayout", arg |-> <<>>, val |-> DefaultLayout]
    /\ UNCHANGED <<systems, guides, doc, entry, og, calls>>

CallSystemStaticPaths ==
    /\ ret' = [op |-> "getStaticPaths", arg |-> "system", val |-> systemStaticPaths]
    /\ UNCHANGED <<systems, guides, doc, entry, og, calls>>

CallGuideStaticPaths ==
    /\ ret' = [op |-> "getStaticPaths", arg |-> "guide", val |-> guideStaticPaths]
    /\ UNCHANGED <<systems, guides, doc, entry, og, calls>>

(***************************************************************************)
(* The prompt generators (src/lib/prompt-generator.ts).  A prompt is the   *)
(* list of the lines of the returned string: the text between two line     *)
(* breaks of the template, a substituted field being one line.  A          *)
(* character outside ASCII is written \uXXXX.                              *)
(***************************************************************************)
\* most calls of the prompt generators in a behaviour
MaxCalls == 3
\* longest list of a drawn record (requirements, components, deep dives,
\* trade-offs, approaches, examples, pros, cons)
MaxItems == 2

\* the fence lines around a Mermaid diagram; the three grave accents of the
\* source are written as three apostrophes
MermaidFence == "'''mermaid"
CloseFence == "'''"

\* variant: the separator written after every element
RECURSIVE JoinStringsTrailing(_, _)
JoinStringsTrailing(arr, separator) ==
    IF arr = <<>> THEN ""
    ELSE arr[1] \o separator \o JoinStringsTrailing(Tail(arr), separator)

\* Array.prototype.join(separator) of strings
RECURSIVE JoinStrings(_, _)
JoinStrings(arr, separator) ==
    IF arr = <<>> THEN ""
    ELSE IF Len(arr) = 1 THEN arr[1]
    ELSE arr[1] \o separator \o JoinStrings(Tail(arr), separator)

\* variant: a placeholder bullet written for an empty list
JoinLinesPlaceholder(arr) == IF arr = <<>> THEN <<"- (none)">> ELSE arr

\* join('\n') of one-line strings, as lines: the empty string is one empty
\* line
JoinLines(arr) == IF arr = <<>> THEN <<"">> ELSE arr

\* join('\n\n') of strings of several lines, as lines: an empty line between
\* two blocks
RECURSIVE JoinBlocks(_)
JoinBlocks(blocks) ==
    IF blocks = <<>> THEN <<"">>
    ELSE IF Len(blocks) = 1 THEN blocks[1]
    ELSE blocks[1] \o <<"">> \o JoinBlocks(Tail(blocks))

\* String.prototype.toLowerCase on the titles in use
ToLowerCase(str) ==
    CASE str = "Server-Sent Events" -> "server-sent events"
      [] str = "Custom Domains" -> "custom domains"
      [] OTHER -> str

\* variant: the body interpolated without the fallback
BodyOfUnguarded(e) == IF "body" \in DOMAIN e THEN e.body ELSE "undefined"

\* entry.body ?? ''
BodyOf(e) == IF "body" \in DOMAIN e THEN e.body ELSE ""

\* the closing block of a system prompt
SystemInstructions ==
    << "## Instructions",
       "",
       "Based on the architecture above, please:",
       "",
       "1. **Choose a modern tech stack** appropriate for my team size and scale targets. Justify each choice.",
       "2. **Design the database schema** with proper indexes, partitioning strategy, and replication approach.",
       "3. **Implement the core services** starting with the most critical path (e.g., message delivery for messaging, feed generation for social).",
       "4. **Set up the infrastructure** with containerization, CI/CD, monitoring, and observability.",
       "5. **Plan for scale** \\u2014 identify the components that will need horizontal scaling first and design them to be stateless where possible.",
       "",
       "Start by asking me clarifying questions about my specific requirements, team size, budget, and timeline. Then produce a phased implementation plan.",
       "" >>

\* variant: one closing block for both kinds of prompt
GuideInstructionsUnified == SystemInstructions

\* the closing block of a guide prompt
GuideInstructions ==
    << "## Instructions",
       "",
       "Based on the architecture above, please:",
       "",
       "1. **Recommend an approach** best suited for my scale, team, and constraints. Justify the choice.",
       "2. **Design the data model** with proper indexes, partitioning, and storage strategy.",
       "3. **Implement the core logic** with production-ready error handling and edge cases.",
       "4. **Plan for scale** \\u2014 identify bottlenecks and design for horizontal scaling.",
       "5. **Add observability** \\u2014 logging, metrics, and alerting for this feature.",
       "",
       "Start by asking me clarifying questions about my specific requirements, existing tech stack, and scale targets. Then produce a phased implementation plan.",
       "" >>

SystemGuidance ==
    "Use the following system design reference to guide the architecture, tech choices, and implementation. Adapt it to my specific needs while preserving the key architectural patterns that make this system work at scale."

GuideGuidance ==
    "Use the following architectural guide to inform the design. Adapt it to my specific needs while preserving the key patterns."

\* `### ${c.name}\n${c.description}`
ComponentBlock(c) == <<"### " \o c.name, c.description>>

\* variant: the diagram of a deep dive written after its content
DeepDiveBlockWithDiagram(d) ==
    IF "diagram" \in DOMAIN d
    THEN <<"### " \o d.title, d.content, MermaidFence, d.diagram, CloseFence>>
    ELSE <<"### " \o d.title, d.content>>

\* `### ${d.title}\n${d.content}`
DeepDiveBlock(d) == <<"### " \o d.title, d.content>>

\* the three lines of a trade-off
TradeoffBlock(t) ==
    << "### " \o t.decision,
       "**Pros:** " \o JoinStrings(t.pros, "; "),
       "**Cons:** " \o JoinStrings(t.cons, "; ") >>

\* variant: the value before the key
ScaleLineValueFirst(kv) == "- " \o kv[2] \o ": " \o kv[1]

\* `- ${k}: ${v}` of an entry [k, v]
ScaleLine(kv) == "- " \o kv[1] \o ": " \o kv[2]

ScaleLines(system) == JoinLines((<<>> \o [i \in 1..Len(ObjectEntries(system.scale)) |-> ScaleLine(ObjectEntries(system.scale)[i])]))

BulletLine(r) == "- " \o r

ExampleLine(e) == "- **" \o e.system \o "**: " \o e.approach

\* variant: the approach numbered by its index from 0
ApproachBlockFromZero(a, i) ==
    << "### Approach " \o ToString(i) \o ": " \o a.name,
       a.description,
       "**Pros:** " \o JoinStrings(a.pros, "; "),
       "**Cons:** " \o JoinStrings(a.cons, "; ") >>

\* the four lines of the approach at index i (from 0)
ApproachBlock(a, i) ==
    << "### Approach " \o ToString(i + 1) \o ": " \o a.name,
       a.description,
       "**Pros:** " \o JoinStrings(a.pros, "; "),
       "**Cons:** " \o JoinStrings(a.cons, "; ") >>

Approaches(guide) ==
    JoinBlocks(<<>> \o [i \in 1..Len(guide.approaches) |->
                           ApproachBlock(guide.approaches[i], i - 1)])

SystemHead(name, tagline) ==
    << "# Build a " \o name \o "-like System",
       "",
       "You are an expert software architect. I want to build a production-grade application inspired by "
           \o name \o " (" \o tagline \o ").",
       "",
       SystemGuidance,
       "",
       "---",
       "" >>

GuideHead(title, tagline) ==
    << "# How to Build: " \o title,
       "",
       "You are an expert software architect. I want to implement "
           \o ToLowerCase(title) \o " in my application. (" \o tagline \o ").",
       "",
       GuideGuidance,
       "",
       "---",
       "" >>

generateBuildPromptFromMdx(e) ==
    SystemHead(e.data.name, e.data.tagline)
        \o <<"## System Design Reference", BodyOf(e), "", "---", "">>
        \o SystemInstructions

\* variant: the body put under a heading of its own
generateGuidePromptFromMdxWithHeading(e) ==
    GuideHead(e.data.title, e.data.tagline)
        \o <<"## Architecture Guide", BodyOf(e), "", "---", "">>
        \o GuideInstructions

generateGuidePromptFromMdx(e) ==
    GuideHead(e.data.title, e.data.tagline)
        \o <<BodyOf(e), "", "---", "">>
        \o GuideInstructions

\* variant: the trade-offs section put before the deep dives
generateBuildPromptTradeoffsFirst(system) ==
    SystemHead(system.name, system.tagline)
        \o <<"## Overview", system.overview, "">>
        \o <<"## Target Scale">> \o ScaleLines(system) \o <<"">>
        \o <<"## Functional Requirements">>
        \o JoinLines((<<>> \o [i \in 1..Len(system.requirements.functional) |-> BulletLine(system.requirements.functional[i])])) \o <<"">>
        \o <<"## Non-Functional Requirements">>
        \o JoinLines((<<>> \o [i \in 1..Len(system.requirements.nonFunctional) |-> BulletLine(system.requirements.nonFunctional[i])])) \o <<"">>
        \o <<"## Architecture Components">>
        \o JoinBlocks((<<>> \o [i \in 1..Len(system.components) |-> ComponentBlock(system.components[i])])) \o <<"">>
        \o <<"## Data Model (Mermaid ER Diagram)", MermaidFence, system.dataModel, CloseFence, "">>
        \o <<"## Tradeoffs to Consider">>
        \o JoinBlocks((<<>> \o [i \in 1..Len(system.tradeoffs) |-> TradeoffBlock(system.tradeoffs[i])])) \o <<"">>
        \o <<"## Key Architectural Deep Dives">>
        \o JoinBlocks((<<>> \o [i \in 1..Len(system.deepDive) |-> DeepDiveBlock(system.deepDive[i])])) \o <<"">>
        \o <<"---", "">>
        \o SystemInstructions

generateBuildPrompt(system) ==
    SystemHead(system.name, system.tagline)
        \o <<"## Overview", system.overview, "">>
        \o <<"## Target Scale">> \o ScaleLines(system) \o <<"">>
        \o <<"## Functional Requirements">>
        \o JoinLines((<<>> \o [i \in 1..Len(system.requirements.functional) |-> BulletLine(system.requirements.functional[i])])) \o <<"">>
        \o <<"## Non-Functional Requirements">>
        \o JoinLines((<<>> \o [i \in 1..Len(system.requirements.nonFunctional) |-> BulletLine(system.requirements.nonFunctional[i])])) \o <<"">>
        \o <<"## Architecture Components">>
        \o JoinBlocks((<<>> \o [i \in 1..Len(system.components) |-> ComponentBlock(system.components[i])])) \o <<"">>
        \o <<"## Data Model (Mermaid ER Diagram)", MermaidFence, system.dataModel, CloseFence, "">>
        \o <<"## Key Architectural Deep Dives">>
        \o JoinBlocks((<<>> \o [i \in 1..Len(system.deepDive) |-> DeepDiveBlock(system.deepDive[i])])) \o <<"">>
        \o <<"## Tradeoffs to Consider">>
        \o JoinBlocks((<<>> \o [i \in 1..Len(system.tradeoffs) |-> TradeoffBlock(system.tradeoffs[i])])) \o <<"">>
        \o <<"---", "">>
        \o SystemInstructions

generateGuidePrompt(guide) ==
    GuideHead(guide.title, guide.tagline)
        \o <<"## Problem", guide.problem, "">>
        \o <<"## Architectural Approaches">> \o Approaches(guide) \o <<"">>
        \o <<"## Key Components">>
        \o JoinBlocks((<<>> \o [i \in 1..Len(guide.components) |-> ComponentBlock(guide.components[i])])) \o <<"">>
        \o <<"## Data Model (Mermaid ER Diagram)", MermaidFence, guide.dataModel, CloseFence, "">>
        \o <<"## Deep Dives">>
        \o JoinBlocks((<<>> \o [i \in 1..Len(guide.deepDive) |-> DeepDiveBlock(guide.deepDive[i])])) \o <<"">>
        \o <<"## Real-World Examples">>
        \o JoinLines((<<>> \o [i \in 1..Len(guide.realWorldExamples) |-> ExampleLine(guide.realWorldExamples[i])])) \o <<"">>
        \o <<"## Tradeoffs">>
        \o JoinBlocks((<<>> \o [i \in 1..Len(guide.tradeoffs) |-> TradeoffBlock(guide.tradeoffs[i])])) \o <<"">>
        \o <<"---", "">>
        \o GuideInstructions

(***************************************************************************)
(* The generator of src/lib/prompt-generator.ts, the module that holds     *)
(* generateBuildPrompt alone.  Its text is that of the later module but    *)
(* for the fifth directive, where the dash is written as the three         *)
(* characters U+00E2 U+20AC U+201D.                                        *)
(***************************************************************************)
libSystemInstructions ==
    << "## Instructions",
       "",
       "Based on the architecture above, please:",
       "",
       "1. **Choose a modern tech stack** appropriate for my team size and scale targets. Justify each choice.",
       "2. **Design the database schema** with proper indexes, partitioning strategy, and replication approach.",
       "3. **Implement the core services** starting with the most critical path (e.g., message delivery for messaging, feed generation for social).",
       "4. **Set up the infrastructure** with containerization, CI/CD, monitoring, and observability.",
       "5. **Plan for scale** \\u00e2\\u20ac\\u201d identify the components that will need horizontal scaling first and design them to be stateless where possible.",
       "",
       "Start by asking me clarifying questions about my specific requirements, team size, budget, and timeline. Then produce a phased implementation plan.",
       "" >>

libGenerateBuildPrompt(system) ==
    SystemHead(system.name, system.tagline)
        \o <<"## Overview", system.overview, "">>
        \o <<"## Target Scale">> \o ScaleLines(system) \o <<"">>
        \o <<"## Functional Requirements">>
        \o JoinLines((<<>> \o [i \in 1..Len(system.requirements.functional) |-> BulletLine(system.requirements.functional[i])])) \o <<"">>
        \o <<"## Non-Functional Requirements">>
        \o JoinLines((<<>> \o [i \in 1..Len(system.requirements.nonFunctional) |-> BulletLine(system.requirements.nonFunctional[i])])) \o <<"">>
        \o <<"## Architecture Components">>
        \o JoinBlocks((<<>> \o [i \in 1..Len(system.components) |-> ComponentBlock(system.components[i])])) \o <<"">>
        \o <<"## Data Model (Mermaid ER Diagram)", MermaidFence, system.dataModel, CloseFence, "">>
        \o <<"## Key Architectural Deep Dives">>
        \o JoinBlocks((<<>> \o [i \in 1..Len(system.deepDive) |-> DeepDiveBlock(system.deepDive[i])])) \o <<"">>
        \o <<"## Tradeoffs to Consider">>
        \o JoinBlocks((<<>> \o [i \in 1..Len(system.tradeoffs) |-> TradeoffBlock(system.tradeoffs[i])])) \o <<"">>
        \o <<"---", "">>
        \o libSystemInstructions

(***************************************************************************)
(* Calls of the prompt generators.  A call reads its argument and returns  *)
(* the prompt; the call is added to calls.                                 *)
(***************************************************************************)
Called(fn, arg, out) ==
    /\ Len(calls) < MaxCalls
    /\ calls' = Append(calls, [fn |-> fn, arg |-> arg, out |-> out])
    /\ UNCHANGED <<systems, guides, ret, doc, entry, og>>

\* variant: the number of prompts generated so far kept by the module and
\* written into the title line
CallGenerateBuildPromptCounting ==
    \E i \in 1..Len(systems) :
        Called("generateBuildPrompt", systems[i],
               <<"# Build a " \o systems[i].name \o "-like System #"
                     \o ToString(Len(calls) + 1)>>
                   \o Tail(generateBuildPrompt(systems[i])))

CallGenerateBuildPrompt ==
    \E i \in 1..Len(systems) :
        Called("generateBuildPrompt", systems[i], generateBuildPrompt(systems[i]))

CallLibGenerateBuildPrompt ==
    \E i \in 1..Len(systems) :
        Called("lib.generateBuildPrompt", systems[i], libGenerateBuildPrompt(systems[i]))

CallGenerateGuidePrompt ==
    \E i \in 1..Len(guides) :
        Called("generateGuidePrompt", guides[i], generateGuidePrompt(guides[i]))

CallGenerateBuildPromptFromMdx ==
    /\ entry.status = "entry"
    /\ "name" \in DOMAIN entry.data
    /\ Called("generateBuildPromptFromMdx", entry, generateBuildPromptFromMdx(entry))

CallGenerateGuidePromptFromMdx ==
    /\ entry.status = "entry"
    /\ "title" \in DOMAIN entry.data
    /\ Called("generateGuidePromptFromMdx", entry, generateGuidePromptFromMdx(entry))

PromptCall ==
    \/ CallGenerateBuildPrompt
    \/ CallLibGenerateBuildPrompt
    \/ CallGenerateGuidePrompt
    \/ CallGenerateBuildPromptFromMdx
    \/ CallGenerateGuidePromptFromMdx

(***************************************************************************)
(* Spec: the site as the repository has it, with the rosters of the index  *)
(* modules.                                                                *)
(***************************************************************************)
Init ==
    /\ systems \in {systemsIndex, systemsLegacy}
    /\ guides = guidesIndex
    /\ ret = NoCall
    /\ doc = NoDocument
    /\ entry = NoEntry
    /\ og = [r \in Requests |-> IdleRequest]
    /\ calls = <<>>

Next == IndexCall

Spec == Init /\ [][Next]_vars

(***************************************************************************)
(* SpecIndex: the index functions over every roster up to the bounds.  One *)
(* index module is populated at a time.  The drawn records vary in slug    *)
(* and category, or in their tags.                                         *)
(***************************************************************************)
SlugPool == {"whatsapp", "telegram"}
SystemCategoryPool == {"messaging", "social"}
GuideCategoryPool == {"real-time", "data"}
TagPool == {"caching", "CDN"}

SystemRecordPool ==
    [slug : SlugPool, category : SystemCategoryPool, tags : {<<>>}]
        \cup [slug : {"whatsapp"}, category : {"messaging"},
              tags : SeqsUpTo(TagPool, MaxTags)]

GuideRecordPool ==
    [slug : SlugPool, category : GuideCategoryPool, tags : {<<>>}]
        \cup [slug : {"whatsapp"}, category : {"real-time"},
              tags : SeqsUpTo(TagPool, MaxTags)]

InitIndex ==
    /\ \/ systems \in SeqsUpTo(SystemRecordPool, MaxRoster) /\ guides = <<>>
       \/ systems = <<>> /\ guides \in SeqsUpTo(GuideRecordPool, MaxRoster)
    /\ ret = NoCall
    /\ doc = NoDocument
    /\ entry = NoEntry
    /\ og = [r \in Requests |-> IdleRequest]
    /\ calls = <<>>

NextIndex == IndexCall

SpecIndex == InitIndex /\ [][NextIndex]_vars

(***************************************************************************)
(* SpecSchema: one document of either collection, drawn from the pools,    *)
(* is loaded against its collection's schema.                              *)
(***************************************************************************)
InitSchema ==
    /\ systems = systemsIndex
    /\ guides = guidesIndex
    /\ ret = NoCall
    /\ \/ doc \in [collection : {"systems"}, data : SystemsDocumentPool]
       \/ doc \in [collection : {"guides"}, data : GuidesDocumentPool]
    /\ entry = NoEntry
    /\ og = [r \in Requests |-> IdleRequest]
    /\ calls = <<>>

NextSchema == LoadSystemsDocument \/ LoadGuidesDocument

SpecSchema == InitSchema /\ [][NextSchema]_vars

(***************************************************************************)
(* SpecOG: an invocation of an OG-image GET handler running alone, its     *)
(* font loads interleaved in every order.                                  *)
(***************************************************************************)
InitOG ==
    /\ systems = systemsIndex
    /\ guides = guidesIndex
    /\ ret = NoCall
    /\ doc = NoDocument
    /\ entry = NoEntry
    /\ og = [r \in Requests |-> IdleRequest]
    /\ calls = <<>>

NextOG == OGStep

SpecOG == InitOG /\ [][NextOG]_vars

(***************************************************************************)
(* SpecOGConcurrent: the build's invocations of the GET handlers running   *)
(* together, their steps interleaved in every order.  A font load fails    *)
(* here on a stylesheet without a font url.                                *)
(***************************************************************************)
NextOGConcurrent ==
    \E r \in Requests :
        \/ InvokePath(r)
        \/ \E i \in 1..3 :
              \/ StylesheetWithoutUrl(r, i)
              \/ StylesheetWithUrl(r, i)
              \/ FontArrives(r, i)
        \/ SatoriResolves(r)

SpecOGConcurrent == InitOG /\ [][NextOGConcurrent]_vars

(***************************************************************************)
(* SpecLayout: the layout builders and getStaticPaths of the OG routes     *)
(* applied to the rosters of the repository, to one article drawn from the *)
(* pools, and to every roster of plain articles up to the bound.  One      *)
(* roster is populated at a time.                                          *)
(***************************************************************************)
\* most scale entries of a drawn system and most tags of a drawn guide
MaxEntries == 5

\* the lists drawn from list: its beginnings of up to n elements, each
\* beginning with its last element replaced by the element after it, and
\* the first two elements the other way round
Variants(list, n) ==
    {SubSeq(list, 1, l) : l \in 0..n}
        \cup {Append(SubSeq(list, 1, l - 1), list[l + 1]) : l \in 1..n}
        \cup {<<list[2], list[1]>>}

ScaleEntryList ==
    << [key |-> "Users", value |-> "1M"],
       [key |-> "Messages per day", value |-> "100B+"],
       [key |-> "Peak throughput", value |-> "~500K"],
       [key |-> "Media storage", value |-> "Petabytes"],
       [key |-> "Countries covered", value |-> "220+"],
       [key |-> "Repositories", value |-> "400M+"],
       [key |-> "Developers", value |-> "100M+"] >>

TagList == <<"real-time", "streaming", "HTTP", "push", "scaling", "DNS", "TLS">>

NamePool == {"WhatsApp", "Telegram"}
TitlePool == {"Server-Sent Events", "Custom Domains"}
TaglinePool == {"Cloud-native messaging", "One-way real-time streaming"}
NarrativePool == {"first narrative", "second narrative"}
LayoutSystemCategoryPool == {"messaging", "transport", "productivity", "video"}
LayoutGuideCategoryPool == {"real-time", "media"}

SystemArticlePool ==
    [slug : SlugPool, name : NamePool, tagline : TaglinePool,
     category : LayoutSystemCategoryPool, tags : {<<>>, <<"caching">>},
     overview : NarrativePool, scale : Variants(ScaleEntryList, MaxEntries)]

GuideArticlePool ==
    [slug : SlugPool, title : TitlePool, tagline : TaglinePool,
     category : LayoutGuideCategoryPool, tags : Variants(TagList, MaxEntries),
     problem : NarrativePool]

PlainSystemPool ==
    [slug : SlugPool, name : {"WhatsApp"}, tagline : {"Cloud-native messaging"},
     category : {"messaging", "productivity"}, tags : {<<>>},
     overview : {"first narrative"}, scale : {<<>>}]

PlainGuidePool ==
    [slug : SlugPool, title : {"Custom Domains"}, tagline : {"Cloud-native messaging"},
     category : LayoutGuideCategoryPool, tags : {<<>>},
     problem : {"first narrative"}]

InitLayout ==
    /\ \/ systems \in {systemsIndex, systemsLegacy} /\ guides = guidesIndex
       \/ systems \in {<<s>> : s \in SystemArticlePool} /\ guides = <<>>
       \/ systems = <<>> /\ guides \in {<<g>> : g \in GuideArticlePool}
       \/ systems \in SeqsUpTo(PlainSystemPool, MaxRoster) /\ guides = <<>>
       \/ systems = <<>> /\ guides \in SeqsUpTo(PlainGuidePool, MaxRoster)
    /\ ret = NoCall
    /\ doc = NoDocument
    /\ entry = NoEntry
    /\ og = [r \in Requests |-> IdleRequest]
    /\ calls = <<>>

NextLayout ==
    \/ BuildSystemLayout
    \/ BuildGuideLayout
    \/ BuildDefaultLayout
    \/ CallSystemStaticPaths
    \/ CallGuideStaticPaths

SpecLayout == InitLayout /\ [][NextLayout]_vars

(***************************************************************************)
(* SpecPrompt: the prompt generators called, in any order and up to        *)
(* MaxCalls times, on a system record, a guide record and a content entry. *)
(* One of the three is drawn from its pool, in which one part of a plain   *)
(* article varies at a time; the other two are the plain ones.             *)
(***************************************************************************)
RequirementPool == {"Send messages", "Low latency"}
ItemPool == {"a", "b"}

ComponentPool ==
    { [name |-> "Gateway", description |-> "Terminates client connections"],
      [name |-> "Queue", description |-> "Buffers work for the workers"] }

DeepDivePool ==
    { [title |-> "Fan-out", content |-> "Write path of a message", diagram |-> "graph TD"],
      [title |-> "Storage", content |-> "Sharding by conversation"] }

\* one trade-off whose pros vary, whose cons vary, or that has neither
TradeoffPool ==
    [decision : {"X"}, pros : SeqsUpTo(ItemPool, MaxItems), cons : {<<"c">>}]
        \cup [decision : {"X"}, pros : {<<"a", "b">>}, cons : SeqsUpTo({"c", "d"}, MaxItems)]
        \cup [decision : {"X"}, pros : {<<>>}, cons : {<<>>}]

PlainTradeoffPool ==
    { [decision |-> "X", pros |-> <<"a", "b">>, cons |-> <<"c">>],
      [decision |-> "Y", pros |-> <<>>, cons |-> <<"d">>] }

ApproachPool ==
    [name : {"Polling"}, description : {"Ask again and again"},
     pros : SeqsUpTo(ItemPool, MaxItems), cons : {<<"c">>}]

PlainApproachPool ==
    { [name |-> "Polling", description |-> "Ask again and again",
       pros |-> <<"a">>, cons |-> <<"c">>],
      [name |-> "Streaming", description |-> "Keep the response open",
       pros |-> <<"b">>, cons |-> <<>>] }

ExamplePool ==
    { [system |-> "WhatsApp", approach |-> "Streaming"],
      [system |-> "GitHub", approach |-> "Polling"] }

PlainSystem ==
    [slug |-> "whatsapp", name |-> "WhatsApp", tagline |-> "Cloud-native messaging",
     category |-> "messaging", tags |-> <<"caching">>,
     overview |-> "first narrative",
     scale |-> <<[key |-> "Users", value |-> "1M"]>>,
     requirements |-> [functional |-> <<"Send messages">>,
                       nonFunctional |-> <<"Low latency">>],
     highLevelDiagram |-> "graph LR",
     components |-> <<[name |-> "Gateway", description |-> "Terminates client connections"]>>,
     dataModel |-> "erDiagram",
     deepDive |-> <<[title |-> "Fan-out", content |-> "Write path of a message"]>>,
     tradeoffs |-> <<[decision |-> "X", pros |-> <<"a", "b">>, cons |-> <<"c">>]>>]

\* a system whose scale map and every list is empty
EmptySystem ==
    [PlainSystem EXCEPT !.tags = <<>>, !.scale = <<>>,
                        !.requirements = [functional |-> <<>>, nonFunctional |-> <<>>],
                        !.components = <<>>, !.deepDive = <<>>, !.tradeoffs = <<>>]

PromptSystemPool ==
    {PlainSystem, EmptySystem}
        \cup {[PlainSystem EXCEPT !.name = v] : v \in NamePool}
        \cup {[PlainSystem EXCEPT !.tagline = v] : v \in TaglinePool}
        \cup {[PlainSystem EXCEPT !.overview = v] : v \in NarrativePool}
        \cup {[PlainSystem EXCEPT !.scale = v] : v \in Variants(ScaleEntryList, MaxEntries)}
        \cup {[PlainSystem EXCEPT !.requirements.functional = v] :
                 v \in SeqsUpTo(RequirementPool, MaxItems)}
        \cup {[PlainSystem EXCEPT !.requirements.nonFunctional = v] :
                 v \in SeqsUpTo(RequirementPool, MaxItems)}
        \cup {[PlainSystem EXCEPT !.components = v] : v \in SeqsUpTo(ComponentPool, MaxItems)}
        \cup {[PlainSystem EXCEPT !.deepDive = v] : v \in SeqsUpTo(DeepDivePool, MaxItems)}
        \cup {[PlainSystem EXCEPT !.tradeoffs = v] : v \in SeqsUpTo(PlainTradeoffPool, MaxItems)}
        \cup {[PlainSystem EXCEPT !.tradeoffs = <<v>>] : v \in TradeoffPool}
        \cup {[PlainSystem EXCEPT !.slug = "telegram", !.category = "social",
                                  !.tags = <<>>, !.highLevelDiagram = "graph TD"]}

PlainGuide ==
    [slug |-> "server-sent-events", title |-> "Server-Sent Events",
     tagline |-> "One-way real-time streaming", category |-> "real-time",
     tags |-> <<"push">>, problem |-> "first narrative",
     approaches |-> <<[name |-> "Polling", description |-> "Ask again and again",
                       pros |-> <<"a">>, cons |-> <<"c">>]>>,
     architectureDiagram |-> "graph LR",
     components |-> <<[name |-> "Gateway", description |-> "Terminates client connections"]>>,
     dataModel |-> "erDiagram",
     deepDive |-> <<[title |-> "Fan-out", content |-> "Write path of a message"]>>,
     realWorldExamples |-> <<[system |-> "WhatsApp", approach |-> "Streaming"]>>,
     tradeoffs |-> <<[decision |-> "X", pros |-> <<"a", "b">>, cons |-> <<"c">>]>>]

\* a guide whose every list is empty
EmptyGuide ==
    [PlainGuide EXCEPT !.tags = <<>>, !.approaches = <<>>, !.components = <<>>,
                       !.deepDive = <<>>, !.realWorldExamples = <<>>,
                       !.tradeoffs = <<>>]

PromptGuidePool ==
    {PlainGuide, EmptyGuide}
        \cup {[PlainGuide EXCEPT !.title = v] : v \in TitlePool}
        \cup {[PlainGuide EXCEPT !.tagline = v] : v \in TaglinePool}
        \cup {[PlainGuide EXCEPT !.problem = v] : v \in NarrativePool}
        \cup {[PlainGuide EXCEPT !.approaches = v] : v \in SeqsUpTo(PlainApproachPool, MaxItems)}
        \cup {[PlainGuide EXCEPT !.approaches = <<v>>] : v \in ApproachPool}
        \cup {[PlainGuide EXCEPT !.components = v] : v \in SeqsUpTo(ComponentPool, MaxItems)}
        \cup {[PlainGuide EXCEPT !.deepDive = v] : v \in SeqsUpTo(DeepDivePool, MaxItems)}
        \cup {[PlainGuide EXCEPT !.realWorldExamples = v] : v \in SeqsUpTo(ExamplePool, MaxItems)}
        \cup {[PlainGuide EXCEPT !.tradeoffs = v] : v \in SeqsUpTo(PlainTradeoffPool, MaxItems)}
        \cup {[PlainGuide EXCEPT !.tradeoffs = <<v>>] : v \in TradeoffPool}
        \cup {[PlainGuide EXCEPT !.slug = "custom-domains", !.category = "platform",
                                 !.tags = <<>>, !.architectureDiagram = "graph TD"]}

BodyPool == {"", "first narrative", "second narrative"}

\* the entries of the two collections, with a body or without
PromptEntryPool ==
    [status : {"entry"}, issues : {{}},
     data : [name : NamePool, tagline : TaglinePool, category : {"messaging"},
             tags : {<<"caching">>}],
     body : BodyPool]
      \cup [status : {"entry"}, issues : {{}},
            data : [name : NamePool, tagline : TaglinePool, category : {"messaging"},
                    tags : {<<"caching">>}]]
      \cup [status : {"entry"}, issues : {{}},
            data : [title : TitlePool, tagline : TaglinePool, category : {"real-time"},
                    tags : {<<"push">>}],
            body : BodyPool]
      \cup [status : {"entry"}, issues : {{}},
            data : [title : TitlePool, tagline : TaglinePool, category : {"real-time"},
                    tags : {<<"push">>}]]

PlainEntry ==
    [status |-> "entry", issues |-> {},
     data |-> [name |-> "WhatsApp", tagline |-> "Cloud-native messaging",
               category |-> "messaging", tags |-> <<"caching">>],
     body |-> "first narrative"]

InitPrompt ==
    /\ \/ /\ systems \in {<<s>> : s \in PromptSystemPool}
          /\ guides = <<PlainGuide>>
          /\ entry = PlainEntry
       \/ /\ systems = <<PlainSystem>>
          /\ guides \in {<<g>> : g \in PromptGuidePool}
          /\ entry = PlainEntry
       \/ /\ systems = <<PlainSystem>>
          /\ guides = <<PlainGuide>>
          /\ entry \in PromptEntryPool
       \/ /\ systems = <<EmptySystem>>
          /\ guides = <<EmptyGuide>>
          /\ entry = PlainEntry
    /\ ret = NoCall
    /\ doc = NoDocument
    /\ og = [r \in Requests |-> IdleRequest]
    /\ calls = <<>>

NextPrompt == PromptCall

SpecPrompt == InitPrompt /\ [][NextPrompt]_vars

(***************************************************************************)
(* SpecContent: every operation that reads the content, in any order: the  *)
(* index queries, the prompt generators and the enumerations of the image  *)
(* paths, over rosters of full records whose tags are not in sorted order. *)
(* One index module is populated at a time.                                *)
(***************************************************************************)
TaggedSystem == [PlainSystem EXCEPT !.tags = <<"caching", "CDN", "caching">>]

OtherSystem ==
    [PlainSystem EXCEPT !.slug = "telegram", !.name = "Telegram",
                        !.category = "social", !.tags = <<"push", "CDN">>]

TaggedGuide == [PlainGuide EXCEPT !.tags = <<"push", "DNS">>]

OtherGuide ==
    [PlainGuide EXCEPT !.slug = "custom-domains", !.title = "Custom Domains",
                       !.category = "platform", !.tags = <<"TLS", "DNS">>]

GuideEntry ==
    [status |-> "entry", issues |-> {},
     data |-> [title |-> "Server-Sent Events", tagline |-> "One-way real-time streaming",
               category |-> "real-time", tags |-> <<"push">>],
     body |-> "second narrative"]

InitContent ==
    /\ \/ /\ systems = <<TaggedSystem, OtherSystem>>
          /\ guides = <<>>
          /\ entry = PlainEntry
       \/ /\ systems = <<>>
          /\ guides = <<OtherGuide, TaggedGuide>>
          /\ entry = GuideEntry
    /\ ret = NoCall
    /\ doc = NoDocument
    /\ og = [r \in Requests |-> IdleRequest]
    /\ calls = <<>>

NextContent ==
    \/ IndexCall
    \/ PromptCall
    \/ CallSystemStaticPaths
    \/ CallGuideStaticPaths

SpecContent == InitContent /\ [][NextContent]_vars

(***************************************************************************)
(* Properties of the aggregation indexes.                                  *)
(***************************************************************************)
\* how often r occurs in arr
Occurrences(arr, r) == Cardinality({i \in 1..Len(arr) : arr[i] = r})

\* sub is arr with some elements left out: same relative order
IsSubsequence(sub, arr) ==
    \E f \in [1..Len(sub) -> 1..Len(arr)] :
        /\ \A i \in 1..Len(sub) : sub[i] = arr[f[i]]
        /\ \A i \in 1..(Len(sub) - 1) : f[i] < f[i + 1]

\* val is exactly the records of arr with the category, in arr's order
ExactlyOfCategory(val, arr, category) ==
    /\ \A i \in 1..Len(val) : val[i].category = category
    /\ \A i \in 1..Len(arr) :
          arr[i].category = category
              => Occurrences(val, arr[i]) = Occurrences(arr, arr[i])
    /\ IsSubsequence(val, arr)
    /\ category \notin CategoriesOf(arr) => val = <<>>

\* C1: getSystemsByCategory(C) and getGuidesByCategory(C) return exactly the
\* roster records whose category is C, each as often as the roster has it and
\* in roster order, and the empty list for a category no record has.
C1_ByCategoryExact ==
    /\ ret.op = "getSystemsByCategory"
          => ExactlyOfCategory(ret.val, systems, ret.arg)
    /\ ret.op = "getGuidesByCategory"
          => ExactlyOfCategory(ret.val, guides, ret.arg)

\* a two-record roster whose first record is filtered out and whose second
\* record is returned
C1_Witness ==
    /\ ret.op = "getSystemsByCategory"
    /\ Len(systems) = 2
    /\ systems[1].category # ret.arg
    /\ ret.val = <<systems[2]>>

\* val is the first record of arr with the slug, or undefined if there is none
FirstWithSlug(val, arr, slug) ==
    LET hits == {i \in 1..Len(arr) : arr[i].slug = slug}
    IN  /\ hits = {} => val = Undefined
        /\ hits # {} =>
              \E i \in hits : /\ val = arr[i]
                              /\ \A j \in 1..(i - 1) : arr[j].slug # slug

\* C2: getSystemBySlug(s) and getGuideBySlug(s) return the first record in
\* roster order whose slug is s, and undefined when no record has that slug;
\* of two records sharing a slug the earlier one is returned.
C2_BySlugFirstOrUndefined ==
    /\ ret.op = "getSystemBySlug" => FirstWithSlug(ret.val, systems, ret.arg)
    /\ ret.op = "getGuideBySlug" => FirstWithSlug(ret.val, guides, ret.arg)

\* two different records share the slug asked for, and the earlier is returned
C2_Witness ==
    /\ ret.op = "getSystemBySlug"
    /\ Len(systems) = 2
    /\ systems[1].slug = ret.arg
    /\ systems[2].slug = ret.arg
    /\ systems[1] # systems[2]
    /\ ret.val = systems[1]

NoSharedSlug(arr) ==
    \A i, j \in 1..Len(arr) : i # j => arr[i].slug # arr[j].slug

C4_CategoryCovered ==
    /\ \A i \in 1..Len(systems) :
          /\ systems[i].category \in DOMAIN categoryLabels
          /\ systems[i].category \in DOMAIN categoryColors
    /\ \A i \in 1..Len(guides) :
          /\ guides[i].category \in DOMAIN guideCategoryLabels
          /\ guides[i].category \in DOMAIN guideCategoryColors

AllDistinct(arr) == \A i, j \in 1..Len(arr) : i # j => arr[i] # arr[j]

Ascending(arr) == \A i \in 1..(Len(arr) - 1) : StrLess(arr[i], arr[i + 1])

TagsOf(arr) == UNION {Range(arr[i].tags) : i \in 1..Len(arr)}

\* C7: getAllTags() and getAllGuideTags() return every tag of every record,
\* nothing that is not a tag of some record, nothing twice, in ascending
\* lexicographic order.
C7_AllTagsSortedDistinct ==
    /\ ret.op = "getAllTags"
          => /\ Range(ret.val) = TagsOf(systems)
             /\ AllDistinct(ret.val)
             /\ Ascending(ret.val)
    /\ ret.op = "getAllGuideTags"
          => /\ Range(ret.val) = TagsOf(guides)
             /\ AllDistinct(ret.val)
             /\ Ascending(ret.val)

\* a tag occurs in two records and the tags are not met in ascending order:
\* the result is shorter than, and ordered differently from, the tags as listed
C7_Witness ==
    /\ ret.op = "getAllTags"
    /\ Len(systems) = 2
    /\ Range(systems[1].tags) \cap Range(systems[2].tags) # {}
    /\ Len(ret.val) >= 2
    /\ ret.val # SetSpread(FlatMapTags(systems))

\* C8: getAllCategories() and getAllGuideCategories() return each category
\* that some roster record has exactly once, and no category that no record
\* has.
C8_AllCategoriesInUseOnce ==
    /\ ret.op = "getAllCategories"
          => /\ Range(ret.val) = CategoriesOf(systems)
             /\ AllDistinct(ret.val)
    /\ ret.op = "getAllGuideCategories"
          => /\ Range(ret.val) = CategoriesOf(guides)
             /\ AllDistinct(ret.val)

\* two records of one category: it is returned once, and a valid category
\* that no record has is not returned
C8_Witness ==
    /\ ret.op = "getAllCategories"
    /\ Len(systems) = 2
    /\ systems[1].category = systems[2].category
    /\ Len(ret.val) = 1
    /\ ProbeCategory \in DOMAIN categoryLabels
    /\ ProbeCategory \notin Range(ret.val)

\* C9 as stated: on the roster of the data index, getSystemsByCategory of
\* 'messaging' returns exactly WhatsApp followed by Telegram.
C9_MessagingIsWhatsAppTelegram ==
    (ret.op = "getSystemsByCategory" /\ ret.arg = "messaging")
        => ret.val = <<whatsapp, telegram>>

\* the records whose modules are available
KnownSystems ==
    {whatsapp, instagram, telegram, netflix, uber, discord, github,
     googleMaps, googleDrive, youtube}

\* C9 amended: on the seventeen-record roster getSystemsByCategory of
\* 'messaging' returns WhatsApp, then Telegram, then the later messaging
\* records of the roster, Discord among them; it is exactly WhatsApp followed
\* by Telegram on the six-record roster only.
C9_MessagingIncludesDiscord ==
    (ret.op = "getSystemsByCategory" /\ ret.arg = "messaging")
        => /\ Len(ret.val) >= 2
           /\ ret.val[1] = whatsapp
           /\ ret.val[2] = telegram
           /\ \A i \in 1..Len(ret.val) : ret.val[i].category = "messaging"
           /\ systems = systemsLegacy => ret.val = <<whatsapp, telegram>>
           /\ systems = systemsIndex =>
                 /\ Len(ret.val) >= 3
                 /\ SelectSeq(ret.val, LAMBDA s : s \in KnownSystems)
                        = <<whatsapp, telegram, discord>>

\* the seventeen-record roster filtered by 'messaging', Discord in the result
C9_Witness ==
    /\ systems = systemsIndex
    /\ ret.op = "getSystemsByCategory"
    /\ ret.arg = "messaging"
    /\ \E i \in 3..Len(ret.val) : ret.val[i] = discord

(***************************************************************************)
(* Properties of the content schema.                                       *)
(***************************************************************************)
\* the category string of the document, if it has one
DocCategoryIs(S) ==
    doc.data.category.type = "string" /\ doc.data.category.str \in S

\* C5: the systems schema accepts exactly the 11 System Category values and
\* the guides schema exactly the 7 Guide Category values; every value a schema
\* accepts has a label and a color in the category configuration, and the
\* label and color maps have no key that the schema rejects.
C5_SchemaEnumsMatchConfiguration ==
    /\ Range(collections.systems.category.values) = Category
    /\ Cardinality(Category) = 11
    /\ Range(collections.guides.category.values) = GuideCategory
    /\ Cardinality(GuideCategory) = 7
    /\ (doc.collection = "systems" /\ entry.status = "entry")
          => DocCategoryIs(DOMAIN libCategoryLabels \cap DOMAIN libCategoryColors)
    /\ (doc.collection = "guides" /\ entry.status = "entry")
          => DocCategoryIs(DOMAIN guideCategoryLabels \cap DOMAIN guideCategoryColors)
    /\ (doc.collection = "systems" /\ "category" \in entry.issues)
          => ~DocCategoryIs(DOMAIN libCategoryLabels \cup DOMAIN libCategoryColors)
    /\ (doc.collection = "guides" /\ "category" \in entry.issues)
          => ~DocCategoryIs(DOMAIN guideCategoryLabels \cup DOMAIN guideCategoryColors)

\* a systems document of one of the four newer categories has been accepted
C5_Witness ==
    /\ doc.collection = "systems"
    /\ entry.status = "entry"
    /\ entry.data.category = VString("productivity")

\* the required fields of the document's collection
RequiredFields ==
    IF doc.collection = "systems"
    THEN {"name", "tagline", "category", "tags"}
    ELSE {"title", "tagline", "category", "tags"}

\* the closed enumeration of the document's collection
FamilyEnumeration ==
    IF doc.collection = "systems" THEN Category ELSE GuideCategory

SomeFieldMissing == \E k \in RequiredFields : doc.data[k].type = "undefined"

TagsNotStringList ==
    \/ doc.data.tags.type # "array"
    \/ \E i \in 1..Len(doc.data.tags.items) : doc.data.tags.items[i].type # "string"

\* all fields present, name/title and tagline strings, a valid category and
\* an empty tags list
CompleteWithEmptyTags ==
    /\ \A k \in RequiredFields \ {"category", "tags"} : doc.data[k].type = "string"
    /\ DocCategoryIs(FamilyEnumeration)
    /\ doc.data.tags = VArray(<<>>)

\* C6: loading a document ends in a validation error, with no entry produced,
\* when its category is outside the collection's enumeration, when a required
\* field is missing, or when tags is not a list of strings; a document with
\* all fields, a valid category and an empty tags list is accepted.
C6_InvalidDocumentsRejected ==
    entry.status # "pending" =>
        /\ (~DocCategoryIs(FamilyEnumeration) \/ SomeFieldMissing \/ TagsNotStringList)
              => (entry.status = "error" /\ entry.data = <<>>)
        /\ CompleteWithEmptyTags => entry.status = "entry"

\* a document rejected for its category alone
C6_Witness ==
    /\ doc.collection = "systems"
    /\ doc.data.category = VString(NoSuchCategory)
    /\ entry.status = "error"
    /\ entry.issues = {"category"}

(***************************************************************************)
(* Properties of the OG-image handlers.                                    *)
(***************************************************************************)
\* a load rejects when the stylesheet fetch fails, when the stylesheet has no
\* src: url(...), or when the font-file fetch fails
LoadFailed(load) == load.step = "rejected"

\* C10: a GET handler returns a response only after all three font loads have
\* succeeded; if a font load fails the handler ends in an error without
\* calling the layout renderer or the rasterizer and without returning a
\* response, and the failed load issues no further fetch.
C10_FontFailureAbortsGeneration ==
    \A r \in Requests :
        /\ og[r].response # NoResponse
              => \A i \in 1..3 : og[r].loads[i].step = "resolved"
        /\ (\E i \in 1..3 : LoadFailed(og[r].loads[i]))
              => /\ og[r].pc = "failed"
                 /\ og[r].satoriCalls = 0
                 /\ og[r].satoriFonts = <<>>
                 /\ og[r].resvgCalls = 0
                 /\ og[r].response = NoResponse
        /\ \A i \in 1..3 :
              LoadFailed(og[r].loads[i])
                  => og[r].loads[i].fetches
                        = IF og[r].loads[i].reason = "font fetch failed" THEN 2 ELSE 1

\* two fonts have been loaded and the stylesheet of the third has no font url
C10_Witness ==
    \E r \in Requests :
        /\ og[r].loads[1].data = FontData(FontLoads[1])
        /\ og[r].loads[2].data = FontData(FontLoads[2])
        /\ og[r].loads[3].reason = "Font URL not found"
        /\ og[r].pc = "failed"

(***************************************************************************)
(* Properties of the OG-image handlers running together.                   *)
(***************************************************************************)
\* what a handler has produced: where it ended, the layout and options it
\* gave to satori and Resvg, and its response
Outcome(req) ==
    [pc |-> req.pc, layout |-> req.layout, canvas |-> req.canvas,
     satoriFonts |-> req.satoriFonts, fitTo |-> req.fitTo,
     response |-> req.response]

\* what a handler running alone ends with, given its route, its props and
\* what its three font loads came to
AloneOutcome(route, props, loads) ==
    IF \E i \in 1..3 : loads[i].step = "rejected"
    THEN [pc |-> "failed", layout |-> NoLayout, canvas |-> NoCanvas,
          satoriFonts |-> <<>>, fitTo |-> NoFitTo, response |-> NoResponse]
    ELSE IF \A i \in 1..3 : loads[i].data.kind = "font"
    THEN [pc |-> "responded", layout |-> LayoutOf(route, props),
          canvas |-> SatoriCanvas, satoriFonts |-> SatoriFonts(loads),
          fitTo |-> ResvgFitTo, response |-> PngResponse]
    ELSE [pc |-> "failed", layout |-> LayoutOf(route, props),
          canvas |-> SatoriCanvas, satoriFonts |-> SatoriFonts(loads),
          fitTo |-> NoFitTo, response |-> NoResponse]

Ended(req) == req.pc \in {"responded", "failed"}

\* every handler that has ended has the outcome of a run alone on the path
\* the build gave it
OutcomesAsAlone ==
    \A r \in Requests :
        /\ og[r].pc # "idle"
              => /\ og[r].route = BuildPath(r).route
                 /\ og[r].props = BuildPath(r).props
        /\ Ended(og[r])
              => Outcome(og[r]) = AloneOutcome(og[r].route, og[r].props, og[r].loads)

\* a step changes the state of one handler only
OneHandlerPerStep ==
    \E r \in Requests : \A q \in Requests \ {r} : og'[q] = og[q]

CategoryColored(layout) ==
    {layout.accentBar.backgroundColor, layout.badge.backgroundColor,
     layout.eyebrow.color}
        \cup {layout.circles[i].backgroundColor : i \in 1..Len(layout.circles)}
        \cup {layout.bottom[i][1].color : i \in 1..Len(layout.bottom)}

\* C12: the per-system generator builds its layout whatever the category: a
\* category among the 7 entries of the local color table gives that entry's
\* color, and video, devtools, ai and productivity, which the table lacks,
\* give the fallback #6b4c3b, on the accent bar, the circle, the badge, the
\* eyebrow label and the scale values.
C12_CategoryColorOrFallback ==
    /\ Cardinality(DOMAIN ogSystemCategoryColor) = 7
    /\ Category \ DOMAIN ogSystemCategoryColor
          = {"video", "devtools", "ai", "productivity"}
    /\ ret.op = "SystemLayout"
          => /\ ret.val.root = LayoutRoot
             /\ ret.arg.category \in DOMAIN ogSystemCategoryColor
                   => CategoryColored(ret.val)
                         = {ogSystemCategoryColor[ret.arg.category]}
             /\ ret.arg.category \notin DOMAIN ogSystemCategoryColor
                   => CategoryColored(ret.val) = {"#6b4c3b"}

\* the layout of Google Drive, of category productivity, with its four scale
\* values in the fallback color
C12_Witness ==
    /\ ret.op = "SystemLayout"
    /\ ret.arg = googleDrive
    /\ ret.arg.category = "productivity"
    /\ Len(ret.val.bottom) = 4
    /\ ret.val.accentBar.backgroundColor = "#6b4c3b"

\* arr without its i-th element
Without(arr, i) == SubSeq(arr, 1, i - 1) \o SubSeq(arr, i + 1, Len(arr))

\* C13: getStaticPaths of the per-system route returns one path per record
\* of the systems roster, in roster order, with the record's slug as
\* params.slug and the record as props; the per-guide route does the same
\* over the guides roster; a slug has a route exactly when a record of the
\* roster has it, and the paths of a roster without one of its records are
\* the paths without that record's.
C13_OnePathPerRecord ==
    /\ (ret.op = "getStaticPaths" /\ ret.arg = "system")
          => /\ Len(ret.val) = Len(systems)
             /\ \A i \in 1..Len(systems) :
                   /\ ret.val[i].params = [slug |-> systems[i].slug]
                   /\ ret.val[i].props = [system |-> systems[i]]
                   /\ SystemPathsOf(Without(systems, i)) = Without(ret.val, i)
             /\ {ret.val[i].params.slug : i \in 1..Len(ret.val)} = Slugs(systems)
    /\ (ret.op = "getStaticPaths" /\ ret.arg = "guide")
          => /\ Len(ret.val) = Len(guides)
             /\ \A i \in 1..Len(guides) :
                   /\ ret.val[i].params = [slug |-> guides[i].slug]
                   /\ ret.val[i].props = [guide |-> guides[i]]
                   /\ GuidePathsOf(Without(guides, i)) = Without(ret.val, i)
             /\ {ret.val[i].params.slug : i \in 1..Len(ret.val)} = Slugs(guides)

\* the paths of a roster of two systems with different slugs
C13_Witness ==
    /\ ret.op = "getStaticPaths"
    /\ ret.arg = "system"
    /\ Len(systems) = 2
    /\ systems[1].slug # systems[2].slug
    /\ Len(ret.val) = 2
    /\ SystemPathsOf(Without(systems, 1)) = <<ret.val[2]>>

\* the first n elements of arr, or all of them
FirstN(arr, n) == SubSeq(arr, 1, IF n < Len(arr) THEN n ELSE Len(arr))

\* two system records with the same name, tagline, category and first four
\* scale entries
SameSystemCard(a, b) ==
    /\ a.name = b.name
    /\ a.tagline = b.tagline
    /\ a.category = b.category
    /\ FirstN(a.scale, 4) = FirstN(b.scale, 4)

\* two guide records with the same title, tagline, category and first five
\* tags
SameGuideCard(a, b) ==
    /\ a.title = b.title
    /\ a.tagline = b.tagline
    /\ a.category = b.category
    /\ FirstN(a.tags, 5) = FirstN(b.tags, 5)

\* C14: the layout of a system is decided by its name, tagline, category and
\* first four scale entries: every other system record with the same four
\* gets the same layout tree, whatever its slug, tags, narrative and later
\* scale entries; the layout of a guide is decided by its title, tagline,
\* category and first five tags.
C14_LayoutOfCardFieldsOnly ==
    /\ (ret.op = "SystemLayout" /\ ret.arg \in SystemArticlePool)
          => \A other \in SystemArticlePool :
                SameSystemCard(ret.arg, other) => SystemLayout(other) = ret.val
    /\ (ret.op = "GuideLayout" /\ ret.arg \in GuideArticlePool)
          => \A other \in GuideArticlePool :
                SameGuideCard(ret.arg, other) => GuideLayout(other) = ret.val

\* the layout of a system with five scale entries, which another system with
\* another slug, other tags, another narrative and another fifth entry shares
C14_Witness ==
    /\ ret.op = "SystemLayout"
    /\ ret.arg \in SystemArticlePool
    /\ Len(ret.arg.scale) = 5
    /\ \E other \in SystemArticlePool :
          /\ SameSystemCard(ret.arg, other)
          /\ other.slug # ret.arg.slug
          /\ other.tags # ret.arg.tags
          /\ other.overview # ret.arg.overview
          /\ Len(other.scale) = 5
          /\ other.scale[5] # ret.arg.scale[5]
          /\ SystemLayout(other) = ret.val

\* C15: the bottom row of a system layout has min(4, number of scale
\* entries) items, the first scale entries in map order, each the value then
\* the key; the bottom row of a guide layout has min(5, number of tags)
\* chips, the first tags in list order; the default layout has no bottom row.
C15_BottomRow ==
    /\ ret.op = "SystemLayout"
          => /\ Len(ret.val.bottom)
                   = (IF Len(ret.arg.scale) < 4 THEN Len(ret.arg.scale) ELSE 4)
             /\ \A i \in 1..Len(ret.val.bottom) :
                   /\ ret.val.bottom[i][1].children = ret.arg.scale[i].value
                   /\ ret.val.bottom[i][2].children = ret.arg.scale[i].key
    /\ ret.op = "GuideLayout"
          => /\ Len(ret.val.bottom)
                   = (IF Len(ret.arg.tags) < 5 THEN Len(ret.arg.tags) ELSE 5)
             /\ \A i \in 1..Len(ret.val.bottom) :
                   ret.val.bottom[i].children = ret.arg.tags[i]
    /\ ret.op = "DefaultLayout" => "bottom" \notin DOMAIN ret.val

\* the layout of a guide with six tags: five chips
C15_Witness ==
    /\ ret.op = "GuideLayout"
    /\ Len(ret.arg.tags) = 6
    /\ Len(ret.val.bottom) = 5
    /\ ret.val.bottom[5].children = ret.arg.tags[5]

\* C16: every response of the three endpoints has Content-Type image/png and
\* Cache-Control 'public, max-age=31536000, immutable', and comes from a
\* layout rendered on a canvas of 1200 by 630 and rasterized at width 1200.
C16_ResponseHeadersAndGeometry ==
    \A r \in Requests :
        og[r].response # NoResponse
            => /\ og[r].route \in {"system", "guide", "default"}
               /\ og[r].response.headers.ContentType = "image/png"
               /\ og[r].response.headers.CacheControl
                     = "public, max-age=31536000, immutable"
               /\ og[r].layout = LayoutOf(og[r].route, og[r].props)
               /\ og[r].layout.root.width = "1200px"
               /\ og[r].layout.root.height = "630px"
               /\ og[r].canvas = [width |-> 1200, height |-> 630]
               /\ og[r].fitTo = [mode |-> "width", value |-> 1200]

\* the default endpoint has returned its image
C16_Witness ==
    \E r \in Requests :
        /\ og[r].route = "default"
        /\ og[r].pc = "responded"
        /\ og[r].response.body = "png"
        /\ og[r].resvgCalls = 1

(***************************************************************************)
(* Claims about the prompt generators, over the calls made so far.         *)
(***************************************************************************)
\* the generator named fn applied to arg, nothing else read
Generated(fn, arg) ==
    CASE fn = "generateBuildPrompt" -> generateBuildPrompt(arg)
      [] fn = "lib.generateBuildPrompt" -> libGenerateBuildPrompt(arg)
      [] fn = "generateGuidePrompt" -> generateGuidePrompt(arg)
      [] fn = "generateBuildPromptFromMdx" -> generateBuildPromptFromMdx(arg)
      [] fn = "generateGuidePromptFromMdx" -> generateGuidePromptFromMdx(arg)

SameCall(i, j) == calls[i].fn = calls[j].fn /\ calls[i].arg = calls[j].arg

SystemHeadings ==
    << "## Overview", "## Target Scale", "## Functional Requirements",
       "## Non-Functional Requirements", "## Architecture Components",
       "## Data Model (Mermaid ER Diagram)", "## Key Architectural Deep Dives",
       "## Tradeoffs to Consider", "## Instructions" >>

GuideHeadings ==
    << "## Problem", "## Architectural Approaches", "## Key Components",
       "## Data Model (Mermaid ER Diagram)", "## Deep Dives",
       "## Real-World Examples", "## Tradeoffs", "## Instructions" >>

\* the lines of out that are heading lines of the list, in the order of out
HeadingsOf(out, headings) ==
    LET IsHeading(line) == line \in Range(headings)
    IN SelectSeq(out, IsHeading)

CallsOf(fn) == {i \in DOMAIN calls : calls[i].fn = fn}

\* the calls of generateBuildPrompt, of either module
BuildPromptCalls == CallsOf("generateBuildPrompt") \cup CallsOf("lib.generateBuildPrompt")

\* C18: the output of generateBuildPrompt begins with the line
\* "# Build a {name}-like System" and its section headings are Overview,
\* Target Scale, Functional Requirements, Non-Functional Requirements,
\* Architecture Components, Data Model (Mermaid ER Diagram), Key
\* Architectural Deep Dives, Tradeoffs to Consider, Instructions, in this
\* order; the output of generateGuidePrompt begins with
\* "# How to Build: {title}" and its headings are Problem, Architectural
\* Approaches, Key Components, Data Model (Mermaid ER Diagram), Deep Dives,
\* Real-World Examples, Tradeoffs, Instructions, in this order.
C18_TitleLineAndHeadingOrder ==
    /\ \A i \in BuildPromptCalls :
          /\ calls[i].out[1] = "# Build a " \o calls[i].arg.name \o "-like System"
          /\ HeadingsOf(calls[i].out, SystemHeadings) = SystemHeadings
    /\ \A i \in CallsOf("generateGuidePrompt") :
          /\ calls[i].out[1] = "# How to Build: " \o calls[i].arg.title
          /\ HeadingsOf(calls[i].out, GuideHeadings) = GuideHeadings

\* both generators called, the system one on a record whose lists are all
\* empty, the guide one on the guide titled Server-Sent Events
C18_Witness ==
    /\ \E i \in CallsOf("generateBuildPrompt") :
          /\ calls[i].arg = EmptySystem
          /\ calls[i].out[1] = "# Build a WhatsApp-like System"
    /\ \E j \in CallsOf("generateGuidePrompt") :
          calls[j].out[1] = "# How to Build: Server-Sent Events"

\* the position of the first line of out equal to line, 0 if there is none
IndexOfLine(out, line) ==
    LET hits == {i \in DOMAIN out : out[i] = line}
    IN  IF hits = {} THEN 0 ELSE CHOOSE i \in hits : \A j \in hits : i <= j

\* the lines of out after the line heading and before the last skip lines
\* that precede the line next
LinesBetween(out, heading, next, skip) ==
    LET from == IndexOfLine(out, heading)
        to == IndexOfLine(out, next)
    IN  SubSeq(out, from + 1, to - 1 - skip)

\* the lines of the section under heading: those after the heading line and
\* before the blank line that precedes the heading next
SectionOf(out, heading, next) == LinesBetween(out, heading, next, 1)

\* C19: in the output of generateBuildPrompt the Target Scale section is one
\* line "- {key}: {value}" per entry of the record's scale map, in the map's
\* order: no entry dropped, repeated or reordered, and no other line (for an
\* empty map the section is one empty line).
C19_TargetScaleLines ==
    \A i \in BuildPromptCalls :
        LET scale == calls[i].arg.scale
            section == SectionOf(calls[i].out, "## Target Scale", "## Functional Requirements")
        IN /\ IndexOfLine(calls[i].out, "## Target Scale") > 0
           /\ IF scale = <<>>
              THEN section = <<"">>
              ELSE /\ Len(section) = Len(scale)
                   /\ \A k \in DOMAIN scale :
                         section[k] = "- " \o scale[k].key \o ": " \o scale[k].value

\* generateBuildPrompt called on a record whose scale map has five entries,
\* and the section's first line is "- Users: 1M"
C19_Witness ==
    \E i \in CallsOf("generateBuildPrompt") :
        /\ Len(calls[i].arg.scale) = MaxEntries
        /\ SectionOf(calls[i].out, "## Target Scale", "## Functional Requirements")[1]
               = "- Users: 1M"
        /\ Len(SectionOf(calls[i].out, "## Target Scale", "## Functional Requirements"))
               = MaxEntries

\* the trade-offs section, the last before the rule: its lines end before
\* the blank line, the rule "---" and the blank line that precede Instructions
TradeoffSectionOf(out, heading) == LinesBetween(out, heading, "## Instructions", 3)

RECURSIVE SemicolonJoined(_)
SemicolonJoined(list) ==
    IF list = <<>> THEN ""
    ELSE IF Len(list) = 1 THEN list[1]
    ELSE SemicolonJoined(SubSeq(list, 1, Len(list) - 1)) \o "; " \o list[Len(list)]

\* section is the rendering of tradeoffs: per trade-off the three lines, and
\* one blank line between consecutive trade-offs
TradeoffsRendered(section, tradeoffs) ==
    IF tradeoffs = <<>>
    THEN section = <<"">>
    ELSE /\ Len(section) = 4 * Len(tradeoffs) - 1
         /\ \A k \in DOMAIN tradeoffs :
               /\ section[4 * k - 3] = "### " \o tradeoffs[k].decision
               /\ section[4 * k - 2] = "**Pros:** " \o SemicolonJoined(tradeoffs[k].pros)
               /\ section[4 * k - 1] = "**Cons:** " \o SemicolonJoined(tradeoffs[k].cons)
               /\ k < Len(tradeoffs) => section[4 * k] = ""

\* C20: in the output of generateBuildPrompt and of generateGuidePrompt every
\* trade-off is rendered, in list order, as the line "### {decision}", the
\* line "**Pros:** " followed by the pros in list order joined by "; ", and
\* the line "**Cons:** " followed by the cons joined the same way, with no
\* leading or trailing separator, and consecutive trade-offs are separated by
\* one blank line.
C20_TradeoffsRendering ==
    /\ \A i \in BuildPromptCalls :
          TradeoffsRendered(TradeoffSectionOf(calls[i].out, "## Tradeoffs to Consider"),
                            calls[i].arg.tradeoffs)
    /\ \A i \in CallsOf("generateGuidePrompt") :
          TradeoffsRendered(TradeoffSectionOf(calls[i].out, "## Tradeoffs"),
                            calls[i].arg.tradeoffs)

\* generateBuildPrompt called on a record with two trade-offs, the first with
\* pros a, b and cons c, and generateGuidePrompt called on a guide whose one
\* trade-off has two cons and no pros
C20_Witness ==
    /\ \E i \in CallsOf("generateBuildPrompt") :
          /\ Len(calls[i].arg.tradeoffs) = 2
          /\ SubSeq(TradeoffSectionOf(calls[i].out, "## Tradeoffs to Consider"), 1, 4)
                 = <<"### X", "**Pros:** a; b", "**Cons:** c", "">>
    /\ \E j \in CallsOf("generateGuidePrompt") :
          TradeoffSectionOf(calls[j].out, "## Tradeoffs")
              = <<"### X", "**Pros:** a; b", "**Cons:** c">>

ApproachesSectionOf(out) ==
    SectionOf(out, "## Architectural Approaches", "## Key Components")

\* C21: in the output of generateGuidePrompt the approaches are rendered in
\* list order, the k-th under the heading "### Approach {k}: {name}" (counting
\* from 1, no number skipped or repeated), followed by its description and
\* its pros and cons lines, with one blank line between approaches.
C21_ApproachesNumbered ==
    \A i \in CallsOf("generateGuidePrompt") :
        LET approaches == calls[i].arg.approaches
            section == ApproachesSectionOf(calls[i].out)
        IN approaches # <<>> =>
              /\ Len(section) = 5 * Len(approaches) - 1
              /\ \A k \in DOMAIN approaches :
                    /\ section[5 * k - 4]
                          = "### Approach " \o ToString(k) \o ": " \o approaches[k].name
                    /\ section[5 * k - 3] = approaches[k].description
                    /\ section[5 * k - 2]
                          = "**Pros:** " \o SemicolonJoined(approaches[k].pros)
                    /\ section[5 * k - 1]
                          = "**Cons:** " \o SemicolonJoined(approaches[k].cons)
                    /\ k < Len(approaches) => section[5 * k] = ""

\* generateGuidePrompt called on a guide with two approaches, Streaming then
\* Polling: the headings are numbered 1 and 2
C21_Witness ==
    \E i \in CallsOf("generateGuidePrompt") :
        /\ Len(calls[i].arg.approaches) = 2
        /\ ApproachesSectionOf(calls[i].out)[1] = "### Approach 1: Streaming"
        /\ ApproachesSectionOf(calls[i].out)[6] = "### Approach 2: Polling"

DiagramPool == {"graph TD", "sequenceDiagram"}

\* the deep-dive items with the title and content of d: without a diagram
\* and with each diagram of the pool
WithDiagrams(d) ==
    {[title |-> d.title, content |-> d.content]}
        \cup {[title |-> d.title, content |-> d.content, diagram |-> g] : g \in DiagramPool}

\* the deep-dive lists that differ from list in the diagrams only
RECURSIVE DiagramChoices(_)
DiagramChoices(list) ==
    IF list = <<>> THEN {<<>>}
    ELSE {<<h>> \o t : h \in WithDiagrams(Head(list)), t \in DiagramChoices(Tail(list))}

\* list with the diagram "sequenceDiagram" on every deep dive
AllWithDiagram(list) ==
    <<>> \o [k \in DOMAIN list |->
                [title |-> list[k].title, content |-> list[k].content,
                 diagram |-> "sequenceDiagram"]]

\* records that differ from system in deepDive[i].diagram, highLevelDiagram,
\* slug, category or tags only: in one of them, and in all of them
SystemLookalikes(system) ==
    {[system EXCEPT !.deepDive = v] : v \in DiagramChoices(system.deepDive)}
        \cup {[system EXCEPT !.highLevelDiagram = "sequenceDiagram"],
              [system EXCEPT !.slug = "telegram"],
              [system EXCEPT !.category = "video"],
              [system EXCEPT !.tags = <<"CDN", "caching">>]}
        \cup {[system EXCEPT !.deepDive = AllWithDiagram(system.deepDive),
                             !.highLevelDiagram = "sequenceDiagram",
                             !.slug = "telegram", !.category = "video", !.tags = <<"CDN">>]}

GuideLookalikes(guide) ==
    {[guide EXCEPT !.deepDive = v] : v \in DiagramChoices(guide.deepDive)}
        \cup {[guide EXCEPT !.architectureDiagram = "sequenceDiagram"],
              [guide EXCEPT !.slug = "telegram"],
              [guide EXCEPT !.category = "media"],
              [guide EXCEPT !.tags = <<"CDN", "caching">>]}
        \cup {[guide EXCEPT !.deepDive = AllWithDiagram(guide.deepDive),
                            !.architectureDiagram = "sequenceDiagram",
                            !.slug = "custom-domains", !.category = "media", !.tags = <<"CDN">>]}

\* section holds, per deep dive, the line "### {title}" and the content,
\* with one blank line between deep dives
DeepDivesRendered(section, deepDive) ==
    deepDive # <<>> =>
        /\ Len(section) = 3 * Len(deepDive) - 1
        /\ \A k \in DOMAIN deepDive :
              /\ section[3 * k - 2] = "### " \o deepDive[k].title
              /\ section[3 * k - 1] = deepDive[k].content

\* C22: the prompt of a record does not depend on the diagrams of its deep
\* dives: a system record (a guide record) that differs from the one given
\* only in deepDive[i].diagram, highLevelDiagram (architectureDiagram), slug,
\* category or tags gives the same prompt, and each deep dive contributes its
\* title and its content only.
C22_PromptIgnoresDiagrams ==
    /\ \A i \in BuildPromptCalls :
          /\ \A other \in SystemLookalikes(calls[i].arg) :
                Generated(calls[i].fn, other) = calls[i].out
          /\ DeepDivesRendered(SectionOf(calls[i].out, "## Key Architectural Deep Dives",
                                         "## Tradeoffs to Consider"),
                               calls[i].arg.deepDive)
    /\ \A i \in CallsOf("generateGuidePrompt") :
          /\ \A other \in GuideLookalikes(calls[i].arg) :
                generateGuidePrompt(other) = calls[i].out
          /\ DeepDivesRendered(SectionOf(calls[i].out, "## Deep Dives",
                                         "## Real-World Examples"),
                               calls[i].arg.deepDive)

\* generateBuildPrompt called on a record whose two deep dives are Fan-out
\* with a diagram and Storage without, and generateGuidePrompt called
C22_Witness ==
    /\ \E i \in CallsOf("generateBuildPrompt") :
          /\ Len(calls[i].arg.deepDive) = 2
          /\ "diagram" \in DOMAIN calls[i].arg.deepDive[1]
          /\ SectionOf(calls[i].out, "## Key Architectural Deep Dives",
                       "## Tradeoffs to Consider")
                 = <<"### Fan-out", "Write path of a message", "",
                     "### Storage", "Sharding by conversation">>
    /\ CallsOf("generateGuidePrompt") # {}

SystemGenerators ==
    {"generateBuildPrompt", "lib.generateBuildPrompt", "generateBuildPromptFromMdx"}
GuideGenerators == {"generateGuidePrompt", "generateGuidePromptFromMdx"}

\* the closing block of a prompt: its lines from "## Instructions" to the end
InstructionsBlockOf(out) ==
    SubSeq(out, IndexOfLine(out, "## Instructions"), Len(out))

\* the numbered directives of a closing block: the lines after "## Instructions",
\* a blank line, the sentence that introduces them and a blank line, up to the
\* blank line before the closing sentence
DirectivesOf(block) == SubSeq(block, 5, Len(block) - 3)

\* the closing sentence of a closing block, which ends with a line break
ClosingSentenceOf(block) == block[Len(block) - 1]

\* C23: the closing Instructions block of a guide prompt differs from that of
\* a system prompt whatever the inputs, also when the fields the two records
\* share are equal: each block has five directives, the k-th directive of one
\* is never the k-th of the other, the closing sentences differ, and no
\* generator emits a directive of the other kind.
C23_InstructionsDiffer ==
    \A i \in DOMAIN calls : \A j \in DOMAIN calls :
        (calls[i].fn \in SystemGenerators /\ calls[j].fn \in GuideGenerators) =>
            LET system == InstructionsBlockOf(calls[i].out)
                guide == InstructionsBlockOf(calls[j].out)
            IN /\ system # guide
               /\ Len(DirectivesOf(system)) = 5
               /\ Len(DirectivesOf(guide)) = 5
               /\ \A k \in 1..5 : DirectivesOf(system)[k] # DirectivesOf(guide)[k]
               /\ ClosingSentenceOf(system) # ClosingSentenceOf(guide)
               /\ Range(DirectivesOf(system)) \cap Range(calls[j].out) = {}
               /\ Range(DirectivesOf(guide)) \cap Range(calls[i].out) = {}

\* generateBuildPrompt and generateGuidePrompt called on records whose
\* tagline, components, data model, deep dives and trade-offs are equal
C23_Witness ==
    \E i \in CallsOf("generateBuildPrompt") : \E j \in CallsOf("generateGuidePrompt") :
        /\ calls[i].arg.tagline = calls[j].arg.tagline
        /\ calls[i].arg.components = calls[j].arg.components
        /\ calls[i].arg.dataModel = calls[j].arg.dataModel
        /\ calls[i].arg.deepDive = calls[j].arg.deepDive
        /\ calls[i].arg.tradeoffs = calls[j].arg.tradeoffs
        /\ InstructionsBlockOf(calls[i].out)[5] # InstructionsBlockOf(calls[j].out)[5]

\* C24: for each kind of article the closing Instructions block of the
\* document-based generator is the one of the legacy generator of that kind:
\* generateBuildPromptFromMdx ends with exactly the Instructions block of
\* generateBuildPrompt, and generateGuidePromptFromMdx with exactly that of
\* generateGuidePrompt.
C24_SameInstructionsBlock ==
    /\ \A i \in CallsOf("generateBuildPromptFromMdx") : \A j \in BuildPromptCalls :
          InstructionsBlockOf(calls[i].out) = InstructionsBlockOf(calls[j].out)
    /\ \A i \in CallsOf("generateGuidePromptFromMdx") : \A j \in CallsOf("generateGuidePrompt") :
          InstructionsBlockOf(calls[i].out) = InstructionsBlockOf(calls[j].out)

FromMdxCalls ==
    CallsOf("generateBuildPromptFromMdx") \cup CallsOf("generateGuidePromptFromMdx")

\* the body a generator reads from the entry e
BodyRead(e) == IF "body" \in DOMAIN e THEN e.body ELSE ""

PositionsOf(out, line) == {k \in DOMAIN out : out[k] = line}

\* out without its k-th line
WithoutLine(out, k) == SubSeq(out, 1, k - 1) \o SubSeq(out, k + 1, Len(out))

\* the position of the body in the prompt of call i: the line under the
\* heading in a system prompt, the second line after the first rule of the
\* prompt's middle in a guide prompt
BodyPosition(i) ==
    IF calls[i].fn = "generateBuildPromptFromMdx"
    THEN IndexOfLine(calls[i].out, "## System Design Reference") + 1
    ELSE IndexOfLine(calls[i].out, "---") + 2

\* the entries that differ from e in the body, the category and the tags
OtherBodies(e) ==
    {[status |-> e.status, issues |-> e.issues, body |-> b,
      data |-> [e.data EXCEPT !.category = c, !.tags = <<>>]] :
        b \in BodyPool, c \in {e.data.category, "infra"}}

\* C25: the document-based generators embed the body of the entry whole and
\* unaltered, exactly once: generateBuildPromptFromMdx right under the one
\* heading "## System Design Reference", generateGuidePromptFromMdx between
\* the two "---" rules with only a blank line on either side and no heading
\* added; every other line of the prompt depends on the name (title) and the
\* tagline only.
C25_BodyEmbeddedOnce ==
    \A i \in FromMdxCalls :
        LET out == calls[i].out
            body == BodyRead(calls[i].arg)
            at == BodyPosition(i)
        IN /\ out[at] = body
           /\ body # "" => PositionsOf(out, body) = {at}
           /\ calls[i].fn = "generateBuildPromptFromMdx" =>
                 /\ Cardinality(PositionsOf(out, "## System Design Reference")) = 1
                 /\ out[at - 1] = "## System Design Reference"
           /\ calls[i].fn = "generateGuidePromptFromMdx" =>
                 /\ PositionsOf(out, "---") = {at - 2, at + 2}
                 /\ out[at - 1] = ""
                 /\ out[at + 1] = ""
           /\ \A other \in OtherBodies(calls[i].arg) :
                 WithoutLine(Generated(calls[i].fn, other), at) = WithoutLine(out, at)

\* generateGuidePromptFromMdx called on an entry with the body
\* "second narrative", which is the line between the rules
C25_Witness ==
    \E i \in CallsOf("generateGuidePromptFromMdx") :
        /\ BodyRead(calls[i].arg) = "second narrative"
        /\ calls[i].out[BodyPosition(i)] = "second narrative"
        /\ calls[i].out[BodyPosition(i) - 2] = "---"

\* the section under heading, which ends before next, is empty when list is
EmptyWhenEmpty(out, list, heading, next) ==
    list = <<>> => SectionOf(out, heading, next) = <<"">>

\* the lines "**Pros:** " and "**Cons:** " of a trade-off block starting at
\* line at of section have nothing after the space when the list is empty
EmptyProsCons(section, at, t) ==
    /\ t.pros = <<>> => section[at + 1] = "**Pros:** "
    /\ t.cons = <<>> => section[at + 2] = "**Cons:** "

\* C26: generateBuildPrompt and generateGuidePrompt return a prompt for every
\* well-formed record, also for one whose scale map and lists (requirements,
\* components, deepDive, tradeoffs, approaches, realWorldExamples, pros,
\* cons) are empty: every section heading is present in the fixed order, and
\* the section under an empty list is empty.
C26_EmptyListsGiveEmptySections ==
    /\ \A i \in BuildPromptCalls :
          LET out == calls[i].out
              system == calls[i].arg
              tradeoffs == TradeoffSectionOf(out, "## Tradeoffs to Consider")
          IN /\ Len(out) > 0
             /\ HeadingsOf(out, SystemHeadings) = SystemHeadings
             /\ EmptyWhenEmpty(out, system.scale, "## Target Scale",
                               "## Functional Requirements")
             /\ EmptyWhenEmpty(out, system.requirements.functional,
                               "## Functional Requirements", "## Non-Functional Requirements")
             /\ EmptyWhenEmpty(out, system.requirements.nonFunctional,
                               "## Non-Functional Requirements", "## Architecture Components")
             /\ EmptyWhenEmpty(out, system.components, "## Architecture Components",
                               "## Data Model (Mermaid ER Diagram)")
             /\ EmptyWhenEmpty(out, system.deepDive, "## Key Architectural Deep Dives",
                               "## Tradeoffs to Consider")
             /\ system.tradeoffs = <<>> => tradeoffs = <<"">>
             /\ \A k \in DOMAIN system.tradeoffs :
                   EmptyProsCons(tradeoffs, 4 * k - 3, system.tradeoffs[k])
    /\ \A i \in CallsOf("generateGuidePrompt") :
          LET out == calls[i].out
              guide == calls[i].arg
              approaches == ApproachesSectionOf(out)
              tradeoffs == TradeoffSectionOf(out, "## Tradeoffs")
          IN /\ Len(out) > 0
             /\ HeadingsOf(out, GuideHeadings) = GuideHeadings
             /\ guide.approaches = <<>> => approaches = <<"">>
             /\ \A k \in DOMAIN guide.approaches :
                   EmptyProsCons(approaches, 5 * k - 3, guide.approaches[k])
             /\ EmptyWhenEmpty(out, guide.components, "## Key Components",
                               "## Data Model (Mermaid ER Diagram)")
             /\ EmptyWhenEmpty(out, guide.deepDive, "## Deep Dives",
                               "## Real-World Examples")
             /\ EmptyWhenEmpty(out, guide.realWorldExamples, "## Real-World Examples",
                               "## Tradeoffs")
             /\ guide.tradeoffs = <<>> => tradeoffs = <<"">>
             /\ \A k \in DOMAIN guide.tradeoffs :
                   EmptyProsCons(tradeoffs, 4 * k - 3, guide.tradeoffs[k])

\* both legacy generators called on the records whose lists are all empty
C26_Witness ==
    /\ \E i \in BuildPromptCalls :
          /\ calls[i].arg = EmptySystem
          /\ SectionOf(calls[i].out, "## Target Scale", "## Functional Requirements") = <<"">>
    /\ \E j \in CallsOf("generateGuidePrompt") :
          /\ calls[j].arg = EmptyGuide
          /\ ApproachesSectionOf(calls[j].out) = <<"">>

\* the entry e with the body b
WithBody(e, b) ==
    [status |-> e.status, issues |-> e.issues, data |-> e.data, body |-> b]

\* C30: generateBuildPromptFromMdx and generateGuidePromptFromMdx do not fail
\* on an entry without a body: the prompt is exactly the one of the same
\* entry with the empty string as body, and it has the title line, the
\* paragraph that introduces the request and the Instructions block.
C30_AbsentBodyAsEmpty ==
    \A i \in FromMdxCalls :
        LET e == calls[i].arg
            out == calls[i].out
        IN "body" \notin DOMAIN e =>
              /\ out = Generated(calls[i].fn, WithBody(e, ""))
              /\ out[BodyPosition(i)] = ""
              /\ out[1] = IF calls[i].fn = "generateBuildPromptFromMdx"
                          THEN "# Build a " \o e.data.name \o "-like System"
                          ELSE "# How to Build: " \o e.data.title
              /\ out[3] = IF calls[i].fn = "generateBuildPromptFromMdx"
                          THEN "You are an expert software architect. I want to build a production-grade application inspired by "
                                   \o e.data.name \o " (" \o e.data.tagline \o ")."
                          ELSE "You are an expert software architect. I want to implement "
                                   \o ToLowerCase(e.data.title) \o " in my application. ("
                                   \o e.data.tagline \o ")."
              /\ IndexOfLine(out, "## Instructions") > BodyPosition(i)
              /\ Len(DirectivesOf(InstructionsBlockOf(out))) = 5

\* generateBuildPromptFromMdx called on the Telegram entry without a body:
\* the line under the heading "## System Design Reference" is empty
C30_Witness ==
    \E i \in CallsOf("generateBuildPromptFromMdx") :
        /\ "body" \notin DOMAIN calls[i].arg
        /\ calls[i].out[1] = "# Build a Telegram-like System"
        /\ calls[i].out[10] = ""

\* what the index queries and the path enumerations return in the current
\* state, on each argument; for getAllTags and getAllGuideTags the list that
\* is handed to sort
IndexResults ==
    << <<>> \o [i \in 1..Len(systems) |-> getSystemBySlug(systems[i].slug)],
       getSystemBySlug(NoSuchSlug),
       <<>> \o [i \in 1..Len(systems) |-> getSystemsByCategory(systems[i].category)],
       getSystemsByCategory(ProbeCategory),
       getAllCategories,
       SetSpread(FlatMapTags(systems)),
       <<>> \o [i \in 1..Len(guides) |-> getGuideBySlug(guides[i].slug)],
       getGuideBySlug(NoSuchSlug),
       <<>> \o [i \in 1..Len(guides) |-> getGuidesByCategory(guides[i].category)],
       getGuidesByCategory(ProbeGuideCategory),
       getAllGuideCategories,
       SetSpread(FlatMapTags(guides)),
       systemStaticPaths,
       guideStaticPaths >>

\* the value the last query of the index returned is its value on the
\* rosters as they are now
ReturnedIsCurrent ==
    CASE ret.op = "getSystemBySlug" -> ret.val = getSystemBySlug(ret.arg)
      [] ret.op = "getSystemsByCategory" -> ret.val = getSystemsByCategory(ret.arg)
      [] ret.op = "getAllCategories" -> ret.val = getAllCategories
      [] ret.op = "getAllTags" -> ret.val = getAllTags
      [] ret.op = "getGuideBySlug" -> ret.val = getGuideBySlug(ret.arg)
      [] ret.op = "getGuidesByCategory" -> ret.val = getGuidesByCategory(ret.arg)
      [] ret.op = "getAllGuideCategories" -> ret.val = getAllGuideCategories
      [] ret.op = "getAllGuideTags" -> ret.val = getAllGuideTags
      [] ret.op = "getStaticPaths" ->
            ret.val = IF ret.arg = "system" THEN systemStaticPaths ELSE guideStaticPaths
      [] OTHER -> TRUE

\* every prompt generated so far is the prompt of a record of the rosters (of
\* the entry) as they are now
GeneratedIsCurrent ==
    \A i \in DOMAIN calls :
        /\ calls[i].arg \in Range(systems) \cup Range(guides) \cup {entry}
        /\ calls[i].out = Generated(calls[i].fn, calls[i].arg)

ContentUnchanged ==
    /\ systems' = systems
    /\ guides' = guides
    /\ entry' = entry
    /\ \A i \in DOMAIN systems : systems'[i].tags = systems[i].tags
    /\ \A i \in DOMAIN guides : guides'[i].tags = guides[i].tags
    /\ IndexResults' = IndexResults

\* C27: no operation mutates the content: over every sequence of index
\* queries, prompt generations and path enumerations each step leaves the
\* rosters, their order and every field of every record as they were (the
\* order of a record's tags included, whatever getAllTags sorts), every query
\* would return after the step what it would have returned before it, and the
\* values returned so far are the values on the rosters as they are.
C27_ContentNeverMutated ==
    [](ReturnedIsCurrent /\ GeneratedIsCurrent) /\ [][ContentUnchanged]_vars

\* getAllTags has returned the sorted tags after a prompt was generated, and
\* the first record still has its tags as written
C27_Witness ==
    /\ ret.op = "getAllTags"
    /\ ret.val = <<"CDN", "caching", "push">>
    /\ systems[1].tags = <<"caching", "CDN", "caching">>
    /\ Len(calls) > 0

\* the load has issued its first fetch, that of the stylesheet
LoadIsStarted(load) == load.fetches >= 1

\* in a handler that has been invoked all three loads are started, a load
\* has fetched its font file only after its stylesheet was received and
\* matched, and the buffers handed to satori are those of the loads of the
\* same family and weight
FontLoadsInOrder(req) ==
    /\ req.pc # "idle" => \A i \in 1..3 : LoadIsStarted(req.loads[i])
    /\ \A i \in 1..3 :
          /\ req.loads[i].step = "css" => req.loads[i].fetches = 1
          /\ req.loads[i].step = "font" => req.loads[i].fetches = 2
          /\ req.loads[i].step = "resolved" => req.loads[i].fetches = 2
          /\ req.loads[i].reason \in {"stylesheet fetch failed", "Font URL not found"}
                => req.loads[i].fetches = 1
          /\ req.loads[i].data.kind = "font" =>
                /\ req.loads[i].data.family = FontLoads[i].family
                /\ req.loads[i].data.weight = FontLoads[i].weight
    /\ req.satoriCalls > 0 =>
          \A i \in 1..3 :
              /\ req.satoriFonts[i].name = FontLoads[i].family
              /\ req.satoriFonts[i].weight = FontLoads[i].weight
              /\ req.satoriFonts[i].data = req.loads[i].data

\* a step in which a load issues a fetch: the three stylesheet fetches are
\* issued together, in the step that invokes the handler, and the fetch of a
\* font file by a load that was awaiting its stylesheet
FetchesInOrder(before, after) ==
    /\ (\E i \in 1..3 : before.loads[i].fetches = 0 /\ after.loads[i].fetches > 0) =>
          /\ before.pc = "idle"
          /\ \A i \in 1..3 : after.loads[i].fetches = 1 /\ after.loads[i].step = "css"
    /\ \A i \in 1..3 :
          after.loads[i].fetches > before.loads[i].fetches /\ before.loads[i].fetches > 0 =>
              /\ before.loads[i].step = "css"
              /\ after.loads[i].step = "font"
              /\ after.loads[i].fetches = 2

\* C28: in each GET handler the three font loads are all started before any
\* of them is awaited; in whatever order their fetches complete, the buffer
\* handed to the renderer under (Playfair Display, 700), (Inter, 400) and
\* (Inter, 600) is the one fetched for that family and weight; and a load
\* fetches its font file only after its stylesheet was received and matched.
C28_FontLoadsConcurrentAndKeyed ==
    /\ [](\A r \in Requests : FontLoadsInOrder(og[r]))
    /\ [][\A r \in Requests : FetchesInOrder(og[r], og'[r])]_vars

\* the load of Inter 600 has resolved with its font while the load of
\* Playfair Display still awaits its stylesheet and that of Inter 400 its
\* font file
C28_Witness ==
    /\ og[1].pc = "fonts"
    /\ og[1].loads[1].step = "css"
    /\ og[1].loads[2].step = "font"
    /\ og[1].loads[3].step = "resolved"
    /\ og[1].loads[3].data = FontData([family |-> "Inter", weight |-> 600])

\* the sum of the lengths of the lists
RECURSIVE TotalLength(_)
TotalLength(lists) ==
    IF lists = <<>> THEN 0 ELSE Len(Head(lists)) + TotalLength(Tail(lists))

\* lists[k] being the by-category list of cats[k]: every record of arr is in
\* exactly one of the lists, the lists hold records of arr only, and the
\* lengths of the lists sum to the length of arr
PartitionOf(arr, cats, lists) ==
    /\ \A i \in 1..Len(arr) :
          Cardinality({k \in 1..Len(cats) : arr[i] \in Range(lists[k])}) = 1
    /\ \A k \in 1..Len(cats) : Range(lists[k]) \subseteq Range(arr)
    /\ TotalLength(lists) = Len(arr)

\* the by-category lists of the categories that the list-all function returns
SystemsPerCategory ==
    <<>> \o [k \in 1..Len(getAllCategories) |-> getSystemsByCategory(getAllCategories[k])]
GuidesPerCategory ==
    <<>> \o [k \in 1..Len(getAllGuideCategories) |->
                getGuidesByCategory(getAllGuideCategories[k])]

\* C29: for every roster, getSystemsByCategory(C) is non-empty exactly when
\* C is one of getAllCategories(), and the lists getSystemsByCategory(C) for
\* C over getAllCategories() partition the roster: every record is in exactly
\* one of them and their lengths sum to the roster's length; the same for
\* getGuidesByCategory and getAllGuideCategories.
C29_CategoriesPartitionRoster ==
    /\ \A C \in SystemCategoryPool \cup {ProbeCategory} :
          getSystemsByCategory(C) # <<>> <=> C \in Range(getAllCategories)
    /\ \A C \in GuideCategoryPool \cup {ProbeGuideCategory} :
          getGuidesByCategory(C) # <<>> <=> C \in Range(getAllGuideCategories)
    /\ ret.op = "getSystemsByCategory"
          => (ret.val # <<>> <=> ret.arg \in Range(getAllCategories))
    /\ ret.op = "getGuidesByCategory"
          => (ret.val # <<>> <=> ret.arg \in Range(getAllGuideCategories))
    /\ PartitionOf(systems, getAllCategories, SystemsPerCategory)
    /\ PartitionOf(guides, getAllGuideCategories, GuidesPerCategory)

\* a roster of two records in two categories: the category asked for has
\* the second record only, and the two lists together hold both records
C29_Witness ==
    /\ ret.op = "getGuidesByCategory"
    /\ Len(guides) = 2
    /\ Len(getAllGuideCategories) = 2
    /\ ret.val = <<guides[2]>>
    /\ GuidesPerCategory = << <<guides[1]>>, <<guides[2]>> >>
=============================================================================
